---- MODULE Spec2Model ----
(***************************************************************************)
(* Lunisolar event engine of hindu-calendar (src/src/astronomy.py) with    *)
(* the two front ends that assemble a year range (src/src/cli.py,          *)
(* src/server/app.py).                                                     *)
(*                                                                         *)
(* One specification per part of the engine:                               *)
(*   SpecTithi    tithi_number_at on a pair of float longitudes            *)
(*   SpecPaksha   paksha_for_tithi / tithi_abs                             *)
(*   SpecLun      lunations_covering_year driven by _find_amavasya_utc     *)
(*   SpecMerge    lunations_covering_year for arbitrary finder answers,    *)
(*                and amanta_lunation_intervals                            *)
(*   SpecRange    generate_range / calendar over a range of years          *)
(*   SpecAssemble events_for_year's sort and _dedup, then                  *)
(*                coalesce_rahukaal_for_viewer                             *)
(*   SpecCoalesce coalesce_rahukaal_for_viewer on lists of Rahu Kaal       *)
(*   SpecYear     events_for_year with every category, for one year        *)
(*   SpecTwice    events_for_year called twice with the same arguments     *)
(*   SpecRahu     rahu_kaal_for_day                                        *)
(*   SpecMonthMap amanta_month_map_for_year                                *)
(*   SpecProvider the functions of the engine with and without ephemeris   *)
(*   SpecFrontEnd the viewer pass of main and of calendar                  *)
(*   SpecRule     the festival rules, their scans one day at a time        *)
(*   SpecFind     _find_amavasya_utc, one pass of its loops at a time      *)
(*   SpecEkadashi ekadashi_events_for_year under either tradition          *)
(* All of them share the variables below; a specification leaves the       *)
(* variables of the other parts at their idle values.                      *)
(***************************************************************************)
EXTENDS Integers, Sequences, FiniteSets, TLC

VARIABLES
    pc,         \* position in the part being run
    lam_sun,    \* tithi_number_at: Sun longitude  (float, units of 1 degree)
    lam_moon,   \* tithi_number_at: Moon longitude (float, units of 1 degree)
    tithi,      \* tithi_number_at: returned value
    t_in,       \* paksha_for_tithi: argument n
    p_in,       \* tithi_abs: argument paksha
    o_in,       \* tithi_abs: argument ordinal
    p_out,      \* paksha_for_tithi(t_in)
    abs_out,    \* tithi_abs(p_in, o_in)
    syn,        \* position provider: length of the synodic month (hours)
    phase,      \* position provider: instant of one new moon (hours)
    year,       \* lunations_covering_year: argument year (years after the epoch)
    guesses,    \* lunations_covering_year: list guesses
    gi,         \* lunations_covering_year: index of the next guess g
    found,      \* lunations_covering_year: list found
    answered,   \* instants the finder has returned so far
    lun,        \* lunations_covering_year: returned list
    intervals,  \* amanta_lunation_intervals: returned list
    src_tz,     \* zone of the source location, hours east of UTC
    ev,         \* events_for_year: list ev before the sort
    events,     \* events_for_year: returned list
    viewer_tz,  \* front end: viewer zone, hours east of UTC
    shown,      \* front end: events handed to build_ics
    year_to,    \* front end: last year of the range
    tradition,  \* front end: "smartha" or "vaishnava"
    include_sankashti,
    include_amavasya_purnima,
    include_rahukaal,
    include_festivals,
    festivals_which, \* front end: the festival selection, split at the commas
    all_events, \* generate_range: list all_events
    sunrise,    \* rahu_kaal_for_day: sr of local_sun_times (ticks)
    sunset,     \* rahu_kaal_for_day: ss of local_sun_times (ticks)
    weekday,    \* rahu_kaal_for_day: day.weekday()
    rahu_start, \* rahu_kaal_for_day: returned start (ticks)
    rahu_end,   \* rahu_kaal_for_day: returned end (ticks)
    month_map,  \* amanta_month_map_for_year: returned map, date -> month name
    ephem_ok,   \* position provider: whether load("de421.bsp") succeeds
    called,     \* the function of the engine that is called
    outcome,    \* how the call or the request ends: "returned" or "raised"
    front_end,  \* "cli" (main) or "http" (calendar)
    viewer_given, \* front end: whether a viewer zone label is given
    viewer_valid, \* front end: whether pytz knows the label
    rule,       \* festival rule being run: its registry key
    scan_d,     \* festival rule: d of the loop `while d <= end` (a day number)
    out,        \* festival rule: list out
    rn_best,    \* rule_ram_navami: best, the day of the highest score so far
    br_guess,   \* _find_amavasya_utc: argument dt_guess_utc
    br_left,    \* _find_amavasya_utc: left
    br_right,   \* _find_amavasya_utc: right
    br_tries,   \* _find_amavasya_utc: tries
    bis_n,      \* _find_amavasya_utc: passes of `for _ in range(50)` made
    root,       \* _find_amavasya_utc: returned value
    events_again \* what a second call of events_for_year returns

varsT == <<lam_sun, lam_moon, tithi>>
varsP == <<t_in, p_in, o_in, p_out, abs_out>>
varsL == <<syn, phase, year, guesses, gi, found, answered, lun, intervals>>
varsE == <<src_tz, ev, events, viewer_tz, shown>>
varsR == <<year_to, tradition, include_sankashti, include_amavasya_purnima,
           include_rahukaal, include_festivals, festivals_which, all_events>>
varsK == <<sunrise, sunset, weekday, rahu_start, rahu_end>>
varsU == <<ephem_ok, called, outcome>>
varsF == <<front_end, viewer_given, viewer_valid>>
varsS == <<rule, scan_d, out, rn_best>>
varsB == <<br_guess, br_left, br_right, br_tries, bis_n, root>>
varsD == <<events_again>>
varsX == <<varsK, month_map, varsU, varsF, varsS, varsB, varsD>>
vars  == <<pc, varsT, varsP, varsL, varsE, varsR, varsX>>

IdleT == lam_sun = 0 /\ lam_moon = 0 /\ tithi = 0
IdleP == t_in = 0 /\ p_in = "" /\ o_in = 0 /\ p_out = "" /\ abs_out = 0
IdleL == /\ syn = 0 /\ phase = 0 /\ year = 0 /\ guesses = <<>> /\ gi = 0
         /\ found = <<>> /\ answered = {} /\ lun = <<>> /\ intervals = <<>>
IdleE == /\ src_tz = 0 /\ ev = <<>> /\ events = <<>> /\ viewer_tz = 0 /\ shown = <<>>
IdleR == /\ year_to = 0 /\ tradition = "" /\ include_sankashti = FALSE
         /\ include_amavasya_purnima = FALSE /\ include_rahukaal = FALSE
         /\ include_festivals = FALSE /\ festivals_which = <<"all">>
         /\ all_events = <<>>
IdleK == /\ sunrise = 0 /\ sunset = 0 /\ weekday = 0 /\ rahu_start = 0 /\ rahu_end = 0
IdleU == ephem_ok = TRUE /\ called = "" /\ outcome = ""
IdleF == front_end = "" /\ viewer_given = FALSE /\ viewer_valid = FALSE
IdleS == /\ rule = "" /\ scan_d = 0 /\ out = <<>>
         /\ rn_best = [ok |-> FALSE, d |-> 0, hits |-> 0, samples |-> 0]
IdleB == /\ br_guess = 0 /\ br_left = 0 /\ br_right = 0 /\ br_tries = 0
         /\ bis_n = 0 /\ root = [ok |-> FALSE, t |-> 0]
IdleD == events_again = <<>>
IdleX == IdleK /\ month_map = <<>> /\ IdleU /\ IdleF /\ IdleS /\ IdleB /\ IdleD

Abs(x) == IF x < 0 THEN -x ELSE x

RECURSIVE Pow2(_)
Pow2(n) == IF n <= 0 THEN 1 ELSE 2 * Pow2(n - 1)

RECURSIVE BitLen(_)
BitLen(v) == IF v <= 0 THEN 0 ELSE 1 + BitLen(v \div 2)

(***************************************************************************)
(* Python floats.  The longitudes are IEEE doubles: a value keeps          *)
(* MantissaBits significant bits, and every sum or difference is rounded   *)
(* to the nearest such value, ties to the even mantissa.  The model keeps  *)
(* the format and shortens the mantissa; a value is an integer number of   *)
(* degrees, so the spacing is 1 below 2^MantissaBits and doubles with      *)
(* each further binade.                                                    *)
(***************************************************************************)
MantissaBits == 6

Spacing(v) == IF Abs(v) < Pow2(MantissaBits) THEN 1
              ELSE Pow2(BitLen(Abs(v)) - MantissaBits)

RoundFloat(v) ==
    LET a  == Abs(v)
        q  == Spacing(a)
        lo == (a \div q) * q
        r  == a - lo
        m  == IF 2 * r < q THEN lo
              ELSE IF 2 * r > q THEN lo + q
              ELSE IF (lo \div q) % 2 = 0 THEN lo ELSE lo + q
    IN  IF v < 0 THEN -m ELSE m

IsFloat(v) == RoundFloat(v) = v

FullCircle == 360
TithiWidth == 12
MaxTithi == 30

\* C fmod: exact, with the sign of the dividend.
Fmod(x, w) == IF x < 0 THEN -((-x) % w) ELSE x % w

\* Python's float %: fmod, then the divisor is added to a result of the
\* other sign; that sum is a float operation and is rounded.
FloatMod(x, w) ==
    LET m == Fmod(x, w)
    IN  IF m # 0 /\ m < 0 THEN RoundFloat(m + w) ELSE m

\* floor(diff / 12.0).  The quotient of a float by 12 is rounded too, but
\* rounding to nearest never carries a quotient below an integer k up to k:
\* the dividend lies at least one spacing below 12k, which is more than half
\* a spacing of the quotient below k.  So the floor is that of the exact
\* quotient.
FloorDiv(x, w) == x \div w

tithi_number_at(ls, lm) ==
    LET diff == FloatMod(RoundFloat(lm - ls), FullCircle)
    IN  FloorDiv(diff, TithiWidth) + 1

\* Longitudes as _ecliptic_longitudes delivers them: floats in [0, 360).
Longitudes == { v \in 0 .. (FullCircle - 1) : IsFloat(v) }

InitTithi ==
    /\ pc = "tithi"
    /\ lam_sun \in Longitudes
    /\ lam_moon \in Longitudes
    /\ tithi = 0
    /\ IdleP /\ IdleX /\ IdleL /\ IdleE /\ IdleR

TithiNumberAt ==
    /\ pc = "tithi"
    /\ tithi' = tithi_number_at(lam_sun, lam_moon)
    /\ pc' = "tithi_done"
    /\ UNCHANGED <<lam_sun, lam_moon, varsP, varsX, varsL, varsE, varsR>>

NextTithi == TithiNumberAt

SpecTithi == InitTithi /\ [][NextTithi]_vars

\* C1: for Sun and Moon longitudes in [0,360), tithi_number_at returns
\* floor(((moonLon - sunLon) mod 360) / 12) + 1, an integer in 1..30.
C1_TithiFormulaAndRange ==
    pc = "tithi_done" =>
        /\ tithi = (((lam_moon - lam_sun) % FullCircle) \div TithiWidth) + 1
        /\ tithi \in 1 .. MaxTithi

(***************************************************************************)
(* paksha_for_tithi / tithi_abs                                            *)
(***************************************************************************)
HalfTithi == 15

\* str.lower() on the paksha names.
Lower(s) == CASE s = "Shukla"  -> "shukla"
              [] s = "Krishna" -> "krishna"
              [] OTHER         -> s

paksha_for_tithi_upto14(n) == IF 1 <= n /\ n < HalfTithi THEN "Shukla" ELSE "Krishna"

paksha_for_tithi(n) == IF 1 <= n /\ n <= HalfTithi THEN "Shukla" ELSE "Krishna"

tithi_abs(paksha, ordinal) ==
    IF Lower(paksha) = "shukla" THEN ordinal ELSE HalfTithi + ordinal

InitPaksha ==
    /\ pc = "paksha"
    /\ t_in \in 1 .. MaxTithi
    /\ p_in \in {"Shukla", "Krishna"}
    /\ o_in \in 1 .. HalfTithi
    /\ p_out = ""
    /\ abs_out = 0
    /\ IdleT /\ IdleL /\ IdleE /\ IdleR /\ IdleX

PakshaForTithi ==
    /\ pc = "paksha"
    /\ p_out' = paksha_for_tithi(t_in)
    /\ pc' = "abs"
    /\ UNCHANGED <<t_in, p_in, o_in, abs_out, varsT, varsL, varsE, varsR, varsX>>

TithiAbs ==
    /\ pc = "abs"
    /\ abs_out' = tithi_abs(p_in, o_in)
    /\ pc' = "paksha_done"
    /\ UNCHANGED <<t_in, p_in, o_in, p_out, varsT, varsL, varsE, varsR, varsX>>

NextPaksha == PakshaForTithi \/ TithiAbs

SpecPaksha == InitPaksha /\ [][NextPaksha]_vars

\* C2: paksha_for_tithi and tithi_abs are mutual inverses: for t in 1..30,
\* tithi_abs(paksha_for_tithi(t), ordinal of t) = t; for p in {Shukla,
\* Krishna} and o in 1..15, paksha_for_tithi(tithi_abs(p, o)) = p.
C2_MutualInverses ==
    /\ pc \in {"abs", "paksha_done"} =>
           tithi_abs(p_out, IF p_out = "Shukla" THEN t_in ELSE t_in - HalfTithi) = t_in
    /\ pc = "paksha_done" => paksha_for_tithi(abs_out) = p_in

C2_Witness ==
    /\ pc = "paksha_done"
    /\ t_in = 16 /\ p_out = "Krishna"
    /\ p_in = "Shukla" /\ o_in = 15 /\ abs_out = 15

(***************************************************************************)
(* Time.  An instant is an integer number of hours (UTC) after the epoch,  *)
(* 00:00 UTC on January 1 of year 0; years are common years.               *)
(***************************************************************************)
HoursPerDay  == 24
DaysPerYear  == 365

Hours(h) == h
Days(d)  == d * HoursPerDay

\* datetime(y, 1, 1, tzinfo=utc)
YearStart(y) == Days(y * DaysPerYear)

(***************************************************************************)
(* Position provider (_ecliptic_longitudes over the ephemeris).  The Moon  *)
(* gains on the Sun at a steady rate: it is new at `phase` and every `syn` *)
(* hours from there, and full half way between.  The elongation            *)
(* lm - ls is kept in angle units of which 2*syn make the full circle, so  *)
(* that it is an integer at every instant.  A request may meet any month   *)
(* length from the shortest to the longest synodic month and any phase.    *)
(***************************************************************************)
SynodicMin  == 703    \* 29 d  7 h
SynodicMean == 709    \* 29 d 13 h
SynodicMax  == 716    \* 29 d 20 h

SynodicLengths == {SynodicMin, SynodicMean, SynodicMax}

Circle == 2 * syn

\* (lm - ls) at instant t, in [0, Circle)
Elongation(t) == 2 * ((t - phase) % syn)

\* def wrap180(x): return (x + 180.0) % 360.0 - 180.0
wrap180(x) == ((x + syn) % Circle) - syn

\* def f(dt): wrap180(lm - ls)
f(t) == wrap180(Elongation(t))

\* abs(fm) < 1e-4 degrees, in angle units: |fm| * 360 * 10000 < Circle
TolInverse == 10000
WithinTol(fm) == Abs(fm) <= (Circle - 1) \div (FullCircle * TolInverse)

(***************************************************************************)
(* _find_amavasya_utc                                                      *)
(***************************************************************************)
BracketHours == 36
ExpandHours  == 24
MaxTries     == 6
MaxBisect    == 50

NoRoot  == [ok |-> FALSE, t |-> 0]
Root(t) == [ok |-> TRUE, t |-> t]

\* the while loop: widen by 24 hours a side while the ends agree in sign
RECURSIVE Bracket(_, _, _)
Bracket(left, right, tries) ==
    IF f(left) * f(right) > 0 /\ tries < MaxTries
    THEN Bracket(left - Hours(ExpandHours), right + Hours(ExpandHours), tries + 1)
    ELSE <<left, right>>

\* the for loop: n iterations left
RECURSIVE Bisect(_, _, _, _)
Bisect(left, right, fl, n) ==
    LET mid == left + (right - left) \div 2
        fm  == f(mid)
    IN  IF n = 0 THEN Root(mid)
        ELSE IF WithinTol(fm) THEN Root(mid)
        ELSE IF fl * fm <= 0 THEN Bisect(left, mid, fl, n - 1)
        ELSE Bisect(mid, right, fm, n - 1)

find_amavasya_utc(dt_guess_utc) ==
    LET b == Bracket(dt_guess_utc - Hours(BracketHours),
                     dt_guess_utc + Hours(BracketHours), 0)
    IN  IF f(b[1]) * f(b[2]) > 0 THEN NoRoot
        ELSE Bisect(b[1], b[2], f(b[1]), MaxBisect)

(***************************************************************************)
(* lunations_covering_year, amanta_lunation_intervals                      *)
(***************************************************************************)
GuessStepHours == 709   \* timedelta(days=29, hours=13)
MergeHours     == 18
StartDaysBefore == 22   \* December 10 of year-1 to January 1 of year
EndDaysAfter    == 19   \* January 1 of year+1 to January 20 of year+1

GuessStart(y) == YearStart(y) - Days(StartDaysBefore)
GuessEnd(y)   == YearStart(y + 1) + Days(EndDaysAfter)

\* cur = start; while cur <= end: guesses.append(cur); cur += 29 d 13 h
RECURSIVE GuessesFrom(_, _)
GuessesFrom(cur, end) ==
    IF cur <= end THEN <<cur>> \o GuessesFrom(cur + Hours(GuessStepHours), end)
    ELSE <<>>

\* the closeness test made against the last entry of found only
MergeFoundLastOnly(fnd, av) ==
    IF ~av.ok THEN fnd
    ELSE IF Len(fnd) > 0 /\ Abs(av.t - fnd[Len(fnd)]) < Hours(MergeHours) THEN fnd
    ELSE Append(fnd, av.t)

\* the body of `for g in guesses` for the finder's answer av
MergeFound(fnd, av) ==
    IF ~av.ok THEN fnd
    ELSE IF \E i \in 1 .. Len(fnd) : Abs(av.t - fnd[i]) < Hours(MergeHours) THEN fnd
    ELSE Append(fnd, av.t)

\* found returned as collected
UnsortedFound(fnd) == fnd

\* found.sort()
SortFound(fnd) == SortSeq(fnd, LAMBDA a, b : a < b)

\* [LunationInterval(lun[i].amavasya, lun[i+1].amavasya) for i in range(len(lun)-1)]
amanta_lunation_intervals(l) ==
    [i \in 1 .. (Len(l) - 1) |-> [start_utc |-> l[i], end_utc |-> l[i + 1]]]

MakeGuesses ==
    /\ pc = "lun_start"
    /\ guesses' = GuessesFrom(GuessStart(year), GuessEnd(year))
    /\ gi' = 1
    /\ found' = <<>>
    /\ pc' = "lun_solve"
    /\ UNCHANGED <<syn, phase, year, answered, lun, intervals, varsT, varsP, varsX, varsE, varsR>>

SolveGuess ==
    /\ pc = "lun_solve"
    /\ gi <= Len(guesses)
    /\ LET av == find_amavasya_utc(guesses[gi])
       IN  /\ found' = MergeFound(found, av)
           /\ answered' = IF av.ok THEN answered \cup {av.t} ELSE answered
    /\ gi' = gi + 1
    /\ UNCHANGED <<pc, syn, phase, year, guesses, lun, intervals, varsT, varsP, varsX, varsE, varsR>>

SortAndReturn ==
    /\ pc = "lun_solve"
    /\ gi > Len(guesses)
    /\ lun' = SortFound(found)
    /\ pc' = "lun_done"
    /\ UNCHANGED <<syn, phase, year, guesses, gi, found, answered, intervals,
                   varsT, varsP, varsX, varsE, varsR>>

AmantaLunationIntervals ==
    /\ pc = "lun_done"
    /\ intervals' = amanta_lunation_intervals(lun)
    /\ pc' = "iv_done"
    /\ UNCHANGED <<syn, phase, year, guesses, gi, found, answered, lun,
                   varsT, varsP, varsX, varsE, varsR>>

InitLun ==
    /\ pc = "lun_start"
    /\ syn \in SynodicLengths
    /\ phase \in 0 .. (syn - 1)
    /\ year = 0
    /\ guesses = <<>> /\ gi = 0 /\ found = <<>> /\ answered = {}
    /\ lun = <<>> /\ intervals = <<>>
    /\ IdleT /\ IdleP /\ IdleX /\ IdleE /\ IdleR

NextLun == MakeGuesses \/ SolveGuess \/ SortAndReturn \/ AmantaLunationIntervals

SpecLun == InitLun /\ [][NextLun]_vars

\* the Moon is new within an hour of t / full within an hour of t
IsNewMoon(t)  == \E n \in {t - 1, t, t + 1} : Elongation(n) = 0
IsFullMoon(t) == \E n \in {t - 1, t} : Elongation(n) < syn /\ Elongation(n + 1) > syn

\* C3: every instant _find_amavasya_utc returns is a new moon (the
\* elongation crosses 0 there); it never returns the instant of a full moon.
C3_FinderReturnsNewMoon ==
    \A a \in answered : IsNewMoon(a) /\ ~IsFullMoon(a)

\* C4: in the list lunations_covering_year returns, consecutive instants
\* differ by at least 29.0 days and at most 30.6 days.
C4_ConsecutiveGap ==
    pc \in {"lun_done", "iv_done"} =>
        \A i \in 1 .. (Len(lun) - 1) :
            /\ 10 * (lun[i + 1] - lun[i]) >= 290 * Days(1)
            /\ 10 * (lun[i + 1] - lun[i]) <= 306 * Days(1)

(***************************************************************************)
(* lunations_covering_year for a finder that may return anything: each     *)
(* guess is answered by no root or by one of a few instants, ten hours     *)
(* apart from one to the next, in any order.                               *)
(***************************************************************************)
MaxAnswer       == 4
AnswerStepHours == 10

AnyAnswers ==
    {NoRoot} \cup { Root(Hours(k * AnswerStepHours)) : k \in 0 .. MaxAnswer }

SolveGuessAny ==
    /\ pc = "lun_solve"
    /\ gi <= Len(guesses)
    /\ \E av \in AnyAnswers :
           /\ found' = MergeFound(found, av)
           /\ answered' = IF av.ok THEN answered \cup {av.t} ELSE answered
    /\ gi' = gi + 1
    /\ UNCHANGED <<pc, syn, phase, year, guesses, lun, intervals, varsT, varsP, varsX, varsE, varsR>>

InitMerge ==
    /\ pc = "lun_start"
    /\ syn = 0 /\ phase = 0 /\ year = 0
    /\ guesses = <<>> /\ gi = 0 /\ found = <<>> /\ answered = {}
    /\ lun = <<>> /\ intervals = <<>>
    /\ IdleT /\ IdleP /\ IdleX /\ IdleE /\ IdleR

NextMerge == MakeGuesses \/ SolveGuessAny \/ SortAndReturn \/ AmantaLunationIntervals

SpecMerge == InitMerge /\ [][NextMerge]_vars

Close(a, b) == Abs(a - b) < Hours(MergeHours)

Kept == { lun[i] : i \in 1 .. Len(lun) }

\* a group of results closer than 18 hours: results that are pairwise
\* closer than 18 hours, with no further result close to all of them
IsGroup(G) ==
    /\ G # {}
    /\ \A a \in G, b \in G : Close(a, b)
    /\ \A c \in answered \ G : \E a \in G : ~Close(a, c)

Returned == pc \in {"lun_done", "iv_done"}

Ascending == \A i \in 1 .. (Len(lun) - 1) : lun[i] < lun[i + 1]

Separated == \A i \in 1 .. Len(lun), j \in 1 .. Len(lun) :
                 i # j => ~Close(lun[i], lun[j])

\* C5 as stated: the returned list is ascending, no two of its instants
\* are less than 18 hours apart, and of every group of results closer than
\* 18 hours exactly one is kept, whatever the finder returns.
C5_ExactlyOneKeptPerGroup ==
    Returned =>
        /\ Ascending
        /\ Separated
        /\ \A G \in SUBSET answered :
               IsGroup(G) => Cardinality(G \cap Kept) = 1

\* C5 as amended: the returned list is ascending and no two of its
\* instants are less than 18 hours apart, whatever the finder returns; of
\* every group of results closer than 18 hours at most one is kept, and
\* every result is kept or lies less than 18 hours from a kept one.
C5_SortedSeparatedCovering ==
    Returned =>
        /\ Ascending
        /\ Separated
        /\ Kept \subseteq answered
        /\ \A G \in SUBSET answered :
               IsGroup(G) => Cardinality(G \cap Kept) <= 1
        /\ \A a \in answered : \E k \in Kept : a = k \/ Close(a, k)

\* a result was dropped as a duplicate and the list has been returned
C5_Witness ==
    /\ Returned
    /\ Len(lun) >= 2
    /\ \E a \in answered : a \notin Kept

\* C6: the intervals are ordered by start, contiguous and non-overlapping:
\* start < end, the end of one is the start of the next, and n lunations
\* give exactly n-1 intervals (none when n <= 1).
C6_IntervalsContiguous ==
    pc = "iv_done" =>
        /\ Len(intervals) = (IF Len(lun) <= 1 THEN 0 ELSE Len(lun) - 1)
        /\ \A i \in 1 .. Len(intervals) :
               /\ intervals[i].start_utc < intervals[i].end_utc
               /\ intervals[i].start_utc = lun[i]
        /\ \A i \in 1 .. (Len(intervals) - 1) :
               /\ intervals[i].end_utc = intervals[i + 1].start_utc
               /\ intervals[i].start_utc < intervals[i + 1].start_utc

C6_Witness ==
    /\ pc = "iv_done"
    /\ Len(lun) = 3
    /\ Len(intervals) = 2
    /\ Cardinality(answered) > 3

(***************************************************************************)
(* Events.  An all-day event is {summary, date, desc}; a timed event is    *)
(* {summary, date_start, date_end, all_day: False, desc}.  In a record     *)
(* here all_day is e.get("all_day", True); date is the day number of an    *)
(* all-day event; date_start and date_end are the instants of a timed      *)
(* event, which carry the zone of the source location (tz, hours east).    *)
(* e.get("date") is None for the timed events and for no other.            *)
(***************************************************************************)
AllDay(summary, d, desc) ==
    [summary |-> summary, all_day |-> TRUE, date |-> d,
     date_start |-> 0, date_end |-> 0, tz |-> 0, desc |-> desc]

Timed(summary, st, en, tz, desc) ==
    [summary |-> summary, all_day |-> FALSE, date |-> 0,
     date_start |-> st, date_end |-> en, tz |-> tz, desc |-> desc]

\* dt.astimezone(tz).date() and .time(), tz in hours east of UTC
DateIn(t, tz) == (t + Hours(tz)) \div Days(1)
TimeIn(t, tz) == (t + Hours(tz)) % Days(1)

\* e["date_start"].date() and .time(): in the zone the instant carries
StartDate(e) == DateIn(e.date_start, e.tz)
StartTime(e) == TimeIn(e.date_start, e.tz)

\* the date alone, every event at 00:00
sort_key_date_only(e) ==
    IF e.all_day THEN <<e.date, 0>> ELSE <<StartDate(e), 0>>

\* def _key(e) of events_for_year
sort_key(e) ==
    IF e.all_day THEN <<e.date, 0>> ELSE <<StartDate(e), StartTime(e)>>

KeyLess(a, b) == a[1] < b[1] \/ (a[1] = b[1] /\ a[2] < b[2])

\* a list computed place by place, as the list of its values
AsList(fn) == fn \o <<>>

\* the sequence with s[at[r]] in place r
Permuted(s, at) == AsList([r \in 1 .. Len(at) |-> s[at[r]]])

\* list.sort(key=...): stable, an event goes behind those whose key is
\* smaller and those of equal key that stand before it
SortedByKey(s, key) ==
    Permuted(s, SortSeq(AsList([i \in 1 .. Len(s) |-> i]),
                        LAMBDA i, j : \/ KeyLess(key[i], key[j])
                                      \/ key[i] = key[j] /\ i < j))

SortEvents(s) == SortedByKey(s, AsList([i \in 1 .. Len(s) |-> sort_key(s[i])]))

\* the summary alone, whatever the date
dedup_key_summary_only(e) == <<e.summary, 0>>

\* the description taken into the key as well
dedup_key_with_desc(e) ==
    <<e.summary, IF e.all_day THEN e.date ELSE StartDate(e), e.desc>>

\* key = (e["summary"], e.get("date") or e["date_start"].date())
dedup_key(e) == <<e.summary, IF e.all_day THEN e.date ELSE StartDate(e)>>

\* an event dropped only when it repeats the key of the event before it
RECURSIVE dedup_adjacent(_)
dedup_adjacent(s) ==
    IF Len(s) <= 1 THEN s
    ELSE LET front == dedup_adjacent(SubSeq(s, 1, Len(s) - 1))
         IN  IF dedup_key(s[Len(s)]) = dedup_key(s[Len(s) - 1]) THEN front
             ELSE Append(front, s[Len(s)])

\* the elements of s at the places where keep holds, in their order
KeptOf(s, keep) ==
    Permuted(s, SelectSeq(AsList([i \in 1 .. Len(s) |-> i]), LAMBDA i : keep[i]))

\* def _dedup(events): the first event of each key, in order
FirstOfKey(s, key) ==
    KeptOf(s, AsList([i \in 1 .. Len(s) |-> \A j \in 1 .. (i - 1) : key[j] # key[i]]))

dedup(s) == FirstOfKey(s, AsList([i \in 1 .. Len(s) |-> dedup_key(s[i])]))

\* ev.sort(key=_key); return _dedup(ev)
sort_and_dedup(s) == dedup(SortEvents(s))

(***************************************************************************)
(* coalesce_rahukaal_for_viewer (server/app.py and cli.py, alike)          *)
(***************************************************************************)
IsRahuKaal(e) == ~e.all_day /\ e.summary = "Rahu Kaal"

\* the keys of per_day in insertion order
RECURSIVE ViewerDays(_, _)
ViewerDays(rk, vt) ==
    IF rk = <<>> THEN <<>>
    ELSE LET front == ViewerDays(SubSeq(rk, 1, Len(rk) - 1), vt)
             key   == DateIn(rk[Len(rk)].date_start, vt)
         IN  IF \E i \in 1 .. Len(front) : front[i] = key THEN front
             ELSE Append(front, key)

\* the first of the day's events as they were given
FirstOf(lst) == lst[1]

\* lst.sort(key=start in vt); lst[-1]: the latest start, the last of equals
LatestOf(lst) ==
    LET last == CHOOSE i \in 1 .. Len(lst) :
                    /\ \A j \in 1 .. Len(lst) : lst[j].date_start <= lst[i].date_start
                    /\ \A j \in (i + 1) .. Len(lst) :
                           lst[j].date_start < lst[i].date_start
    IN  lst[last]

coalesce_rahukaal_for_viewer(evs, vt) ==
    LET rk     == SelectSeq(evs, IsRahuKaal)
        days   == ViewerDays(rk, vt)
        OnDay(k) == SelectSeq(rk, LAMBDA e : DateIn(e.date_start, vt) = days[k])
        chosen == [k \in 1 .. Len(days) |-> LatestOf(OnDay(k))]
        others == SelectSeq(evs, LAMBDA e : ~IsRahuKaal(e))
    IN  others \o chosen

(***************************************************************************)
(* events_for_year's sort and _dedup on what the category functions may    *)
(* deliver, then the viewer-timezone pass of the front ends.               *)
(***************************************************************************)
MaxEvents == 3

SampleDays     == {0, 1}
SampleHours    == {8, 16}
SampleDescs    == {"first", "second"}
SourceOffsets  == {-8, 5}
ViewerOffsets  == {-10, 0, 9}

SampleEvents(tz) ==
    { AllDay(s, d, x) : s \in {"Amavasya", "Ekadashi"}, d \in SampleDays,
                        x \in SampleDescs }
    \cup
    { Timed("Rahu Kaal", Days(d) + Hours(h - tz), Days(d) + Hours(h - tz + 1), tz, "")
          : d \in SampleDays, h \in SampleHours }

InitAssemble ==
    /\ pc = "asm_start"
    /\ src_tz \in SourceOffsets
    /\ \E n \in 0 .. MaxEvents : ev \in [1 .. n -> SampleEvents(src_tz)]
    /\ events = <<>>
    /\ viewer_tz = 0
    /\ shown = <<>>
    /\ IdleT /\ IdleP /\ IdleX /\ IdleL /\ IdleR

\* events_for_year from `ev.sort(key=_key)` on
EventsForYear ==
    /\ pc = "asm_start"
    /\ events' = sort_and_dedup(ev)
    /\ pc' = "asm_done"
    /\ UNCHANGED <<ev, src_tz, viewer_tz, shown, varsT, varsP, varsX, varsL, varsR>>

\* if viewer_tz: events = coalesce_rahukaal_for_viewer(events, viewer_tz)
Coalesce ==
    /\ pc = "asm_done"
    /\ \E vt \in ViewerOffsets :
           /\ viewer_tz' = vt
           /\ shown' = coalesce_rahukaal_for_viewer(events, vt)
    /\ pc' = "coalesced"
    /\ UNCHANGED <<ev, src_tz, events, varsT, varsP, varsX, varsL, varsR>>

NextAssemble == EventsForYear \/ Coalesce

SpecAssemble == InitAssemble /\ [][NextAssemble]_vars

\* the identity key of the data model: (summary, intrinsic date)
IdentityKey(e) == <<e.summary, IF e.all_day THEN e.date ELSE StartDate(e)>>

\* where an event is placed: (date, time of day), an all-day event at 00:00
PlacedDate(e) == IF e.all_day THEN e.date ELSE StartDate(e)
PlacedTime(e) == IF e.all_day THEN 0 ELSE StartTime(e)
PlacedBefore(a, b) ==
    \/ PlacedDate(a) < PlacedDate(b)
    \/ PlacedDate(a) = PlacedDate(b) /\ PlacedTime(a) < PlacedTime(b)

Assembled == pc \in {"asm_done", "coalesced"}

\* C7: the sequence events_for_year returns holds no two events with the
\* same identity key (summary, date), and of several input events with the
\* same key the one kept is the first in the sorted sequence: none of them
\* is placed before it, and of those placed with it it is the first given.
C7_NoDuplicateFirstKept ==
    Assembled =>
        /\ \A i \in 1 .. Len(events), j \in 1 .. Len(events) :
               i # j => IdentityKey(events[i]) # IdentityKey(events[j])
        /\ \A i \in 1 .. Len(ev) :
               \E k \in 1 .. Len(events) : IdentityKey(events[k]) = IdentityKey(ev[i])
        /\ \A k \in 1 .. Len(events) :
               \E m \in 1 .. Len(ev) :
                   /\ ev[m] = events[k]
                   /\ \A n \in 1 .. Len(ev) :
                          IdentityKey(ev[n]) = IdentityKey(ev[m]) =>
                              /\ ~PlacedBefore(ev[n], ev[m])
                              /\ n < m => PlacedBefore(ev[m], ev[n])

\* three inputs with one key, the one kept neither the first nor the last given
C7_Witness ==
    /\ Assembled
    /\ Len(ev) = 3
    /\ Len(events) = 1
    /\ ev[1] # ev[2] /\ ev[2] # ev[3]
    /\ events[1] = ev[2]

\* C9: the sequence events_for_year returns is ordered by (date, time of
\* day), an all-day event as if at 00:00: no event precedes another that
\* is placed before it.
C9_OrderedByDateTime ==
    Assembled =>
        \A i \in 1 .. Len(events), j \in 1 .. Len(events) :
            i < j => ~PlacedBefore(events[j], events[i])

\* all-day and timed events of one date, given in the opposite order
C9_Witness ==
    /\ Assembled
    /\ Len(events) = 3
    /\ events[1].all_day /\ ~events[2].all_day /\ ~events[3].all_day
    /\ PlacedDate(events[1]) = PlacedDate(events[2])
    /\ events[1] = ev[3] /\ events[3] = ev[1]

\* C10: after viewer-timezone coalescing the sequence is still ordered by
\* (date, time of day), all-day events as if at 00:00.
C10_CoalescedStillOrdered ==
    pc = "coalesced" =>
        \A i \in 1 .. Len(shown), j \in 1 .. Len(shown) :
            i < j => ~PlacedBefore(shown[j], shown[i])

(***************************************************************************)
(* Rise-set provider (local_sun_times, local_moonrise over astral) for the *)
(* year-range specification: the Sun rises at 06:00 local time; the Moon   *)
(* rises later than the Sun by the share of a day that its elongation is   *)
(* of the circle, and on the day that rise would fall on midnight there is *)
(* no moonrise.                                                            *)
(***************************************************************************)
\* tz.localize(datetime(d.year, d.month, d.day, hh, 0))
LocalHour(d, hh, tz) == Days(d) + Hours(hh - tz)

local_sunrise(d, tz) == LocalHour(d, 6, tz)

local_moonrise(d, tz) ==
    LET lag == (HoursPerDay * Elongation(LocalHour(d, 12, tz))) \div Circle
    IN  IF 6 + lag = HoursPerDay THEN NoRoot
        ELSE Root(LocalHour(d, (6 + lag) % HoursPerDay, tz))

\* tithi_number_at on the provider's longitudes at instant t
tithi_at(t) == (Elongation(t) * MaxTithi) \div Circle + 1

\* date(year, 1, 1) and date(year, 12, 31) as day numbers
FirstDay(y) == y * DaysPerYear
LastDay(y)  == y * DaysPerYear + DaysPerYear - 1

MonthStarts == <<0, 31, 59, 90, 120, 151, 181, 212, 243, 273, 304, 334>>

\* d.month
Month(d) ==
    LET doy == d % DaysPerYear
    IN  Cardinality({ m \in 1 .. 12 : MonthStarts[m] <= doy })

\* the concatenation of the lists per[d], d from first to last
RECURSIVE Concat(_, _, _)
Concat(per, first, last) ==
    IF first > last THEN <<>>
    ELSE IF first = last THEN per[first]
    ELSE LET mid == (first + last) \div 2
         IN  Concat(per, first, mid) \o Concat(per, mid + 1, last)

(***************************************************************************)
(* ekadashi_events_for_year                                                *)
(***************************************************************************)
EkadashiTithi == 11

\* _EKADASHI_NAME_MAP[("Shukla", m)] with " Ekadashi - Shukla"
EkadashiNames ==
    << "Putrada Ekadashi - Shukla",   "Shattila Ekadashi - Shukla",
       "Jaya Ekadashi - Shukla",      "Amalaki Ekadashi - Shukla",
       "Kamada Ekadashi - Shukla",    "Mohini Ekadashi - Shukla",
       "Nirjala Ekadashi - Shukla",   "Padma/Devshayani Ekadashi - Shukla",
       "Pavitra Ekadashi - Shukla",   "Parivartini/Padma Ekadashi - Shukla",
       "Papankusha Ekadashi - Shukla", "Prabodhini/Devutthana Ekadashi - Shukla" >>

\* the summary _label_ekadashi_names leaves on an event dated d: the
\* summary built from paksha_for_tithi(11) holds "Shukla", and every month
\* has a Shukla name
EkadashiSummary(d) == EkadashiNames[Month(d)]

ekadashi_events_for_year(y, trad, tz) ==
    LET t(d) == tithi_at(local_sunrise(d, tz))
        per  == [d \in FirstDay(y) .. LastDay(y) |->
                   IF trad = "smartha"
                   THEN IF t(d) = EkadashiTithi
                        THEN <<AllDay(EkadashiSummary(d), d, "Smarta")>>
                        ELSE <<>>
                   ELSE IF t(d) = EkadashiTithi
                        THEN <<AllDay(EkadashiSummary(d), d, "Vaishnava at sunrise")>>
                        ELSE IF t(d + 1) = EkadashiTithi
                             THEN <<AllDay(EkadashiSummary(d + 1), d + 1,
                                           "Vaishnava shift")>>
                             ELSE <<>>]
    IN  dedup(Concat(per, FirstDay(y), LastDay(y)))

(***************************************************************************)
(* sankashti_events_for_year                                               *)
(***************************************************************************)
\* _local_range_from_interval: the end is taken one second before end_utc,
\* which lies in the hour before it
local_range_from_interval(tz, iv) ==
    <<DateIn(iv.start_utc, tz), DateIn(iv.end_utc - Hours(1), tz)>>

SankashtiTithi == tithi_abs("Krishna", 4)

\* the tests of one day d: moonrise, then the hours 12 to 23
SankashtiOn(d, tz) ==
    LET mr == local_moonrise(d, tz)
    IN  \/ mr.ok /\ tithi_at(mr.t) = SankashtiTithi
        \/ \E hh \in 12 .. 23 : tithi_at(LocalHour(d, hh, tz)) = SankashtiTithi

\* the first day of the range r that meets the tests, if any
SankashtiPick(r, tz) ==
    IF \E d \in r[1] .. r[2] : SankashtiOn(d, tz)
    THEN <<AllDay("Sankashti Chaturthi (Krishna)",
                  CHOOSE d \in r[1] .. r[2] :
                      /\ SankashtiOn(d, tz)
                      /\ \A o \in r[1] .. (d - 1) : ~SankashtiOn(o, tz),
                  "Krishna Chaturthi per lunation")>>
    ELSE <<>>

sankashti_events_for_year(ivs, tz) ==
    LET per == [i \in 1 .. Len(ivs) |->
                  SankashtiPick(local_range_from_interval(tz, ivs[i]), tz)]
    IN  SortEvents(Concat(per, 1, Len(ivs)))

(***************************************************************************)
(* amavasya_purnima_events_for_year                                        *)
(***************************************************************************)
amavasya_purnima_events_for_year(y, tz) ==
    LET t(d) == tithi_at(local_sunrise(d, tz))
        per  == [d \in FirstDay(y) .. LastDay(y) |->
                   IF t(d) = MaxTithi
                   THEN <<AllDay("Amavasya", d, "Tithi 30 at sunrise")>>
                   ELSE IF t(d) = HalfTithi
                        THEN <<AllDay("Purnima", d, "Tithi 15 at sunrise")>>
                        ELSE <<>>]
    IN  Concat(per, FirstDay(y), LastDay(y))

(***************************************************************************)
(* generate_range (cli.py) and the loop of calendar (server/app.py): for   *)
(* y in range(year, year_to + 1), all_events.extend(events_for_year(y)).   *)
(* The requests drawn here leave out the festivals and Rahu Kaal           *)
(* (include_festivals and include_rahukaal False).                         *)
(***************************************************************************)
MaxYearTo      == 1
PhaseStepHours == 96

InitRange ==
    /\ pc = "year_start"
    /\ syn \in SynodicLengths
    /\ phase \in { p \in 0 .. (syn - 1) : p % PhaseStepHours = 0 }
    /\ year = 0
    /\ year_to \in 0 .. MaxYearTo
    /\ tradition \in {"smartha", "vaishnava"}
    /\ include_sankashti \in BOOLEAN
    /\ include_amavasya_purnima \in BOOLEAN
    /\ include_rahukaal = FALSE
    /\ include_festivals = FALSE
    /\ festivals_which = <<"all">>
    /\ src_tz \in SourceOffsets
    /\ all_events = <<>>
    /\ guesses = <<>> /\ gi = 0 /\ found = <<>> /\ answered = {}
    /\ lun = <<>> /\ intervals = <<>>
    /\ ev = <<>> /\ events = <<>> /\ viewer_tz = 0 /\ shown = <<>>
    /\ IdleT /\ IdleP /\ IdleX

\* events_for_year(y) up to the first use of the lunation intervals
YearStarts ==
    /\ pc = "year_start"
    /\ IF include_sankashti
       THEN pc' = "lun_start" /\ UNCHANGED intervals
       ELSE pc' = "iv_done" /\ intervals' = <<>>
    /\ UNCHANGED <<syn, phase, year, guesses, gi, found, answered, lun,
                   varsT, varsP, varsX, varsE, varsR>>

\* the rest of events_for_year(y), and all_events.extend(...)
ExtendWithYear ==
    /\ pc = "iv_done"
    /\ LET collected ==
               ekadashi_events_for_year(year, tradition, src_tz)
               \o (IF include_sankashti
                   THEN sankashti_events_for_year(intervals, src_tz) ELSE <<>>)
               \o (IF include_amavasya_purnima
                   THEN amavasya_purnima_events_for_year(year, src_tz) ELSE <<>>)
       IN  /\ ev' = collected
           /\ events' = sort_and_dedup(collected)
           /\ all_events' = all_events \o sort_and_dedup(collected)
    /\ IF year < year_to
       THEN year' = year + 1 /\ pc' = "year_start"
       ELSE year' = year /\ pc' = "range_done"
    /\ UNCHANGED <<syn, phase, guesses, gi, found, answered, lun, intervals,
                   src_tz, viewer_tz, shown, year_to, tradition,
                   include_sankashti, include_amavasya_purnima,
                   include_rahukaal, include_festivals, festivals_which,
                   varsT, varsP, varsX>>

NextRange ==
    \/ YearStarts
    \/ MakeGuesses
    \/ SolveGuess
    \/ SortAndReturn
    \/ AmantaLunationIntervals
    \/ ExtendWithYear

SpecRange == InitRange /\ [][NextRange]_vars

\* C8: for a year range year..year_to, the event sequence assembled for
\* serialization holds no two events with the same identity key
\* (summary, date), for every tradition and combination of flags.
C8_RangeHasNoDuplicateKey ==
    pc = "range_done" =>
        \A i \in 1 .. Len(all_events), j \in 1 .. Len(all_events) :
            i # j => IdentityKey(all_events[i]) # IdentityKey(all_events[j])

(***************************************************************************)
(* coalesce_rahukaal_for_viewer applied to any event sequence.             *)
(***************************************************************************)
InitCoalesce ==
    /\ pc = "co_start"
    /\ src_tz \in SourceOffsets
    /\ \E n \in 0 .. MaxEvents : ev \in [1 .. n -> SampleEvents(src_tz)]
    /\ events = <<>>
    /\ viewer_tz = 0
    /\ shown = <<>>
    /\ IdleT /\ IdleP /\ IdleX /\ IdleL /\ IdleR

CoalesceAny ==
    /\ pc = "co_start"
    /\ \E vt \in ViewerOffsets :
           /\ viewer_tz' = vt
           /\ shown' = coalesce_rahukaal_for_viewer(ev, vt)
    /\ pc' = "co_done"
    /\ UNCHANGED <<ev, src_tz, events, varsT, varsP, varsX, varsL, varsR>>

NextCoalesce == CoalesceAny

SpecCoalesce == InitCoalesce /\ [][NextCoalesce]_vars

\* the viewer-local date on which a timed event starts
ViewerDate(e) == DateIn(e.date_start, viewer_tz)

RahuIn(s) == { i \in 1 .. Len(s) : IsRahuKaal(s[i]) }

\* C11: coalescing returns exactly one Rahu Kaal event for each viewer-local
\* date on which some input Rahu Kaal event starts, namely an input event of
\* that date with the latest start instant, and a Rahu Kaal event for no
\* other date.
C11_OneLatestPerViewerDate ==
    pc = "co_done" =>
        /\ \A i \in RahuIn(ev) :
               Cardinality({ k \in RahuIn(shown) :
                               ViewerDate(shown[k]) = ViewerDate(ev[i]) }) = 1
        /\ \A k \in RahuIn(shown) :
               /\ \E i \in RahuIn(ev) : ev[i] = shown[k]
               /\ \A i \in RahuIn(ev) :
                      ViewerDate(ev[i]) = ViewerDate(shown[k]) =>
                          ev[i].date_start <= shown[k].date_start

\* two Rahu Kaal events of different source dates start on one viewer date,
\* the later one given first, and only the later one is returned
C11_Witness ==
    /\ pc = "co_done"
    /\ Len(ev) = 2
    /\ IsRahuKaal(ev[1]) /\ IsRahuKaal(ev[2])
    /\ StartDate(ev[1]) # StartDate(ev[2])
    /\ ViewerDate(ev[1]) = ViewerDate(ev[2])
    /\ ev[2].date_start < ev[1].date_start
    /\ shown = <<ev[1]>>

(***************************************************************************)
(* Rise-set and position providers, continued, for the festival rules and  *)
(* Rahu Kaal: the Sun sets 16 hours after it rises in the summer half of   *)
(* the year and 8 hours after it in the winter half; the Sun's sidereal    *)
(* longitude advances one circle a year from the entry into Aries; day 0   *)
(* is a Monday.                                                            *)
(***************************************************************************)
\* date(y, m, dd) as a day number
DayOf(y, m, dd) == FirstDay(y) + MonthStarts[m] + dd - 1

\* local_sun_times(...)[1]
local_sunset(d, tz) ==
    LET doy == d % DaysPerYear
    IN  IF doy >= MonthStarts[4] /\ doy < MonthStarts[10]
        THEN LocalHour(d, 22, tz)
        ELSE LocalHour(d, 14, tz)

\* day.weekday(): 0 is Monday
Weekday(d) == d % 7

YearHours == Days(DaysPerYear)
SignHours == YearHours \div 12

\* sun_sidereal_longitude, the circle being YearHours and 30 degrees SignHours
sun_sidereal_longitude(t) == (t - Days(MonthStarts[4] + 13)) % YearHours

\* int(floor(sun_sidereal_longitude(dt) / 30.0)) % 12
sidereal_solar_month_index(t) == (sun_sidereal_longitude(t) \div SignHours) % 12

\* Optional[date]
NoDate == [ok |-> FALSE, d |-> 0]
SomeDate(d) == [ok |-> TRUE, d |-> d]

\* the first date of a loop over ascending dates that meets the loop's test
Earliest(S) ==
    IF S = {} THEN NoDate
    ELSE SomeDate(CHOOSE d \in S : \A o \in S : d <= o)

\* f"{hh:02d}"
Pad2(hh) == IF hh < 10 THEN "0" \o ToString(hh) ELSE ToString(hh)

\* _tithi_at_sunrise
tithi_at_sunrise(d, tz) == tithi_at(local_sunrise(d, tz))

\* the first hour of range(from, below) of local day d at which the tithi is target
HourWith(d, tz, from, below, target) ==
    Earliest({ hh \in from .. (below - 1) : tithi_at(LocalHour(d, hh, tz)) = target })

first_sunrise_tithi_date_in_interval(tz, iv, abs_tithi) ==
    LET r == local_range_from_interval(tz, iv)
    IN  Earliest({ d \in r[1] .. r[2] : tithi_at_sunrise(d, tz) = abs_tithi })

first_anytime_tithi_date_in_interval(tz, iv, abs_tithi) ==
    LET r == local_range_from_interval(tz, iv)
    IN  Earliest({ d \in r[1] .. r[2] : HourWith(d, tz, 0, 24, abs_tithi).ok })

(***************************************************************************)
(* rahu_kaal_for_day.  Instants are counted here in ticks, the resolution  *)
(* of datetime and timedelta (a microsecond); timedelta(seconds=x) rounds  *)
(* x to the nearest tick, halves to the even one.                          *)
(***************************************************************************)
TicksPerSecond == 10
TicksPerHour   == 3600 * TicksPerSecond
Segments       == 8
PolarSpanHours == 12

\* _RAHU_SEG read from Sunday on
RAHU_SEG_from_sunday == <<8, 2, 7, 5, 6, 4, 3>>

\* _RAHU_SEG, Mon..Sun
RAHU_SEG == <<2, 7, 5, 6, 4, 3, 8>>

\* num / den rounded to an integer, halves to the even one (den > 0, num >= 0)
RoundHalfEven(num, den) ==
    LET q == num \div den
        r == num % den
    IN  IF 2 * r < den THEN q
        ELSE IF 2 * r > den THEN q + 1
        ELSE IF q % 2 = 0 THEN q ELSE q + 1

\* (ss - sr).total_seconds() as it comes, in ticks
rahu_span_unguarded(sr, ss) == ss - sr

\* max(1, (ss - sr).total_seconds()), in ticks, after the DST/polar guard
rahu_span(sr, ss) ==
    LET ss2 == IF ss <= sr THEN sr + PolarSpanHours * TicksPerHour ELSE ss
    IN  IF ss2 - sr < TicksPerSecond THEN TicksPerSecond ELSE ss2 - sr

\* the window of a day with sunrise sr and sunset ss (ticks) and weekday wd
\* (0 is Monday)
rahu_kaal_for_day(sr, ss, wd) ==
    LET span  == rahu_span(sr, ss)
        seg   == RAHU_SEG[wd + 1]
        start == sr + RoundHalfEven((seg - 1) * span, Segments)
    IN  [start |-> start, end |-> start + RoundHalfEven(span, Segments)]

\* rahu_kaal_events_for_year: one event a day, in day order
rahu_kaal_events_for_year(y, tz) ==
    LET per == [d \in FirstDay(y) .. LastDay(y) |->
                  LET w == rahu_kaal_for_day(local_sunrise(d, tz) * TicksPerHour,
                                             local_sunset(d, tz) * TicksPerHour,
                                             Weekday(d))
                  IN  <<Timed("Rahu Kaal", w.start \div TicksPerHour,
                              w.end \div TicksPerHour, tz,
                              "Day split in eight; weekday segment")>>]
    IN  Concat(per, FirstDay(y), LastDay(y))

(***************************************************************************)
(* Festival rules.  A rule is given the year, the zone of the location and *)
(* the lunation data of the year, and returns its events.                  *)
(***************************************************************************)
\* the loop shared by rule_gudi_padwa, rule_ganesh_chaturthi,
\* rule_nag_panchami, rule_raksha_bandhan and rule_hanuman_jayanti: the
\* first day of the window with the tithi at sunrise or, failing that, at
\* one of its 24 hours
sunrise_or_hourly(tz, first, last, target, summary, at_sunrise, at_hour) ==
    LET pick == Earliest({ d \in first .. last :
                             \/ tithi_at_sunrise(d, tz) = target
                             \/ HourWith(d, tz, 0, 24, target).ok })
    IN  IF ~pick.ok THEN <<>>
        ELSE IF tithi_at_sunrise(pick.d, tz) = target
             THEN <<AllDay(summary, pick.d, at_sunrise)>>
             ELSE <<AllDay(summary, pick.d,
                           at_hour \o Pad2(HourWith(pick.d, tz, 0, 24, target).d) \o ")")>>

rule_gudi_padwa(y, tz) ==
    sunrise_or_hourly(tz, DayOf(y, 3, 15), DayOf(y, 4, 20), tithi_abs("Shukla", 1),
                      "Gudi Padwa (Maharashtra New Year)",
                      "Chaitra Shukla Pratipada at sunrise",
                      "Chaitra Shukla Pratipada (hour ")

rule_makara_sankranti(y, tz) ==
    LET idx(d) == sidereal_solar_month_index(LocalHour(d, 12, tz))
        pick   == Earliest({ d \in (FirstDay(y) + 1) .. LastDay(y) :
                               idx(d - 1) # idx(d) /\ idx(d) = 9 })
    IN  IF pick.ok
        THEN <<AllDay("Makara Sankranti", pick.d, "Sun enters sidereal Makara")>>
        ELSE <<>>

rule_ganesh_chaturthi(y, tz) ==
    sunrise_or_hourly(tz, DayOf(y, 8, 20), DayOf(y, 9, 25), tithi_abs("Shukla", 4),
                      "Ganesh Chaturthi / Vinayaka Chaturthi",
                      "Shukla Chaturthi at sunrise",
                      "Shukla Chaturthi present (hour ")

rule_nag_panchami(y, tz) ==
    sunrise_or_hourly(tz, DayOf(y, 7, 1), DayOf(y, 8, 31), tithi_abs("Shukla", 5),
                      "Nag Panchami",
                      "Shravana Shukla Panchami (sunrise)",
                      "Shravana Shukla Panchami (hour ")

rule_raksha_bandhan(y, tz) ==
    sunrise_or_hourly(tz, DayOf(y, 7, 20), DayOf(y, 9, 10), tithi_abs("Shukla", 15),
                      "Raksha Bandhan",
                      "Shravana Purnima",
                      "Shravana Purnima (hour ")

rule_hanuman_jayanti(y, tz) ==
    sunrise_or_hourly(tz, DayOf(y, 3, 20), DayOf(y, 5, 10), tithi_abs("Shukla", 15),
                      "Hanuman Jayanti",
                      "Chaitra Purnima",
                      "Chaitra Purnima (hour ")

\* is_tritiya of rule_hartalika_teej
is_tritiya(d, tz) ==
    \/ tithi_at_sunrise(d, tz) = tithi_abs("Shukla", 3)
    \/ HourWith(d, tz, 0, 24, tithi_abs("Shukla", 3)).ok

rule_hartalika_teej(y, tz) ==
    LET g    == rule_ganesh_chaturthi(y, tz)
        scan == Earliest({ d \in DayOf(y, 8, 20) .. DayOf(y, 9, 25) : is_tritiya(d, tz) })
    IN  IF g # <<>> /\ is_tritiya(g[1].date - 1, tz)
        THEN <<AllDay("Hartalika Teej", g[1].date - 1,
                      "Day before Ganesh; Shukla Tritiya verified")>>
        ELSE IF scan.ok
             THEN <<AllDay("Hartalika Teej", scan.d, "Shukla Tritiya (seasonal window)")>>
             ELSE <<>>

\* _find_ganesh_interval_index: an index from 0, or None
NoIndex == [ok |-> FALSE, i |-> 0]
find_ganesh_interval_index(tz, ivs) ==
    LET target == tithi_abs("Shukla", 4)
        hits   == { i \in 1 .. Len(ivs) :
                      \/ first_sunrise_tithi_date_in_interval(tz, ivs[i], target).ok
                      \/ first_anytime_tithi_date_in_interval(tz, ivs[i], target).ok }
    IN  IF hits = {} THEN NoIndex
        ELSE [ok |-> TRUE, i |-> (CHOOSE i \in hits : \A o \in hits : i <= o) - 1]

rule_hariyali_teej(tz, ivs) ==
    LET gidx == find_ganesh_interval_index(tz, ivs)
        prev == ivs[gidx.i]
        d1   == first_sunrise_tithi_date_in_interval(tz, prev, tithi_abs("Shukla", 3))
        d2   == first_anytime_tithi_date_in_interval(tz, prev, tithi_abs("Shukla", 3))
        d    == IF d1.ok THEN d1 ELSE d2
    IN  IF ~gidx.ok \/ gidx.i = 0 THEN <<>>
        ELSE IF d.ok
             THEN <<AllDay("Hariyali Teej", d.d, "Shukla Tritiya (pre-Ganesh lunation)")>>
             ELSE <<>>

AMANTA_MONTHS ==
    << "Chaitra", "Vaisakha", "Jyeshtha", "Ashadha", "Shravana", "Bhadrapada",
       "Ashwin", "Kartika", "Margashirsha", "Pausha", "Magha", "Phalguna" >>

\* idx = int(floor(((lam_sid + 30.0) % 360.0) / 30.0)) at the Amavasya av
amanta_index(av) == ((sun_sidereal_longitude(av) + SignHours) % YearHours) \div SignHours

\* amanta_month_map_for_year(...)[d], l being lunations_covering_year(year)
amanta_month_name(l, d) ==
    LET probe == Days(d) + Hours(12)
        holds == { i \in 1 .. (Len(l) - 1) : l[i] <= probe /\ probe < l[i + 1] }
    IN  IF l = <<>> \/ holds = {} THEN AMANTA_MONTHS[1]
        ELSE AMANTA_MONTHS[amanta_index(l[CHOOSE i \in holds : \A o \in holds : i <= o]) + 1]

amanta_month_map_for_year(l, y) ==
    [d \in FirstDay(y) .. LastDay(y) |-> amanta_month_name(l, d)]

rule_mahashivratri(y, tz, l) ==
    LET mmap == amanta_month_map_for_year(l, y)
        pick == Earliest({ d \in FirstDay(y) .. LastDay(y) :
                             /\ mmap[d] = "Phalguna"
                             /\ tithi_at(LocalHour(d, 20, tz)) = tithi_abs("Krishna", 14) })
    IN  IF pick.ok
        THEN <<AllDay("Mahashivratri", pick.d, "Phalguna Krishna Chaturdashi (night)")>>
        ELSE <<>>

\* need of rule_navaratri_set
NavaratriNeed == { tithi_abs("Shukla", 1), tithi_abs("Shukla", 8),
                   tithi_abs("Shukla", 9), tithi_abs("Shukla", 10) }
NavaratriName(t) ==
    CASE t = tithi_abs("Shukla", 1)  -> "Shardiya Navaratri begins"
      [] t = tithi_abs("Shukla", 8)  -> "Durga Ashtami"
      [] t = tithi_abs("Shukla", 9)  -> "Maha Navami"
      [] t = tithi_abs("Shukla", 10) -> "Vijayadashami / Dussehra"

\* the second loop of rule_navaratri_set
RECURSIVE NavaratriScan(_, _, _, _)
NavaratriScan(d, limit, seen, tz) ==
    IF d > limit \/ Cardinality(seen) >= 4 THEN <<>>
    ELSE LET t  == tithi_at_sunrise(d, tz)
             hs == { hh \in 0 .. 23 :
                       LET t2 == tithi_at(LocalHour(d, hh, tz))
                       IN  t2 \in NavaratriNeed /\ t2 \notin seen }
             hh == CHOOSE h \in hs : \A o \in hs : h <= o
             t2 == tithi_at(LocalHour(d, hh, tz))
         IN  IF t \in NavaratriNeed /\ t \notin seen
             THEN <<AllDay(NavaratriName(t), d, "Tithi at sunrise = " \o ToString(t))>>
                  \o NavaratriScan(d + 1, limit, seen \cup {t}, tz)
             ELSE IF hs # {}
                  THEN <<AllDay(NavaratriName(t2), d,
                                "Tithi at " \o Pad2(hh) \o ":00 = " \o ToString(t2))>>
                       \o NavaratriScan(d + 1, limit, seen \cup {t2}, tz)
                  ELSE NavaratriScan(d + 1, limit, seen, tz)

\* amav of rule_navaratri_set: the first date of September 1 .. October 31
\* with tithi 30 at sunrise, or None
navaratri_amavasya(y, tz) ==
    Earliest({ d \in DayOf(y, 9, 1) .. DayOf(y, 10, 31) :
                 tithi_at_sunrise(d, tz) = tithi_abs("Krishna", 15) })

rule_navaratri_set(y, tz) ==
    LET amav == navaratri_amavasya(y, tz)
    IN  IF ~amav.ok THEN <<>>
        ELSE SortEvents(NavaratriScan(amav.d + 1, amav.d + 1 + 15, {}, tz))

rule_pitru_paksha(y, tz) ==
    LET last  == DayOf(y, 10, 15)
        start == Earliest({ d \in DayOf(y, 8, 15) .. last :
                              tithi_at_sunrise(d, tz) = tithi_abs("Krishna", 1) })
        stop  == IF start.ok
                 THEN Earliest({ d \in start.d .. last :
                                   tithi_at_sunrise(d, tz) = tithi_abs("Krishna", 15) })
                 ELSE NoDate
    IN  (IF start.ok
         THEN <<AllDay("Pitru Paksha begins", start.d, "Krishna Pratipada (start)")>>
         ELSE <<>>)
        \o
        (IF stop.ok
         THEN <<AllDay("Pitru Paksha ends (Mahalaya Amavasya)", stop.d,
                       "Krishna Amavasya (end)")>>
         ELSE <<>>)

rule_karwa_chauth(y, tz) ==
    LET target  == tithi_abs("Krishna", 4)
        AtRise(d) == LET mr == local_moonrise(d, tz)
                     IN  mr.ok /\ tithi_at(mr.t) = target
        pick == Earliest({ d \in DayOf(y, 9, 15) .. DayOf(y, 11, 15) :
                             AtRise(d) \/ HourWith(d, tz, 15, 24, target).ok })
    IN  IF ~pick.ok THEN <<>>
        ELSE IF AtRise(pick.d)
             THEN <<AllDay("Karwa Chauth", pick.d, "Krishna Chaturthi at moonrise")>>
             ELSE <<AllDay("Karwa Chauth", pick.d, "Krishna Chaturthi detected in evening")>>

rule_diwali_bundle(y, tz) ==
    LET diwali == Earliest({ d \in DayOf(y, 9, 20) .. DayOf(y, 11, 20) :
                               /\ tithi_at_sunrise(d, tz) = 30
                               /\ sidereal_solar_month_index(LocalHour(d, 12, tz)) = 6 })
    IN  IF ~diwali.ok THEN <<>>
        ELSE << AllDay("Diwali / Deepavali", diwali.d, "Amavasya in sidereal Libra"),
                AllDay("Govardhan Puja / Annakut", diwali.d + 1,
                       "Shukla Pratipada (day after Diwali)."),
                AllDay("Bhai Dooj", diwali.d + 2,
                       "Shukla Dwitiya (two days after Diwali).") >>

\* rule_ram_navami: the Madhyahna window of day d, sampled every 6 minutes.
\* Minutes are counted from the start of the hour count; the tithi of a
\* sample is that of the hour it lies in.
MinutesPerHour == 60
SampleMinutes  == 6

RamNavamiDay(d, tz) ==
    LET sr      == local_sunrise(d, tz)
        ss0     == local_sunset(d, tz)
        ss      == IF ss0 <= sr THEN sr + Hours(PolarSpanHours) ELSE ss0
        daylen  == (ss - sr) * MinutesPerHour
        mid     == sr * MinutesPerHour + daylen \div 2
        wstart  == mid - daylen \div 10
        wend    == mid + daylen \div 10
        last    == (wend - wstart) \div SampleMinutes
        hits    == Cardinality({ i \in 0 .. last :
                       tithi_at((wstart + i * SampleMinutes) \div MinutesPerHour)
                           = tithi_abs("Shukla", 9) })
    IN  [d |-> d, hits |-> hits, samples |-> last + 1]

\* a higher score alone, the earlier day kept at equal scores
RamNavamiBetterStrictly(a, b) == a.hits * b.samples > b.hits * a.samples

\* score > best[0] or (score == best[0] and d > best[1])
RamNavamiBetter(a, b) ==
    \/ a.hits * b.samples > b.hits * a.samples
    \/ a.hits * b.samples = b.hits * a.samples /\ a.d > b.d

rule_ram_navami(y, tz) ==
    LET days == { RamNavamiDay(d, tz) : d \in DayOf(y, 3, 15) .. DayOf(y, 4, 20) }
        cand == { r \in days : r.hits > 0 }
        best == CHOOSE r \in cand : \A o \in cand : o = r \/ RamNavamiBetter(r, o)
    IN  IF cand = {} THEN <<>>
        ELSE <<AllDay("Ram Navami", best.d,
                      "Chaitra Shukla Navami, Madhyahna-kala occupancy: "
                          \o ToString(best.hits) \o "/" \o ToString(best.samples))>>

rule_akshaya_tritiya(y, tz) ==
    LET pick == Earliest({ d \in DayOf(y, 4, 1) .. (DayOf(y, 6, 1) - 1) :
                             tithi_at_sunrise(d, tz) = tithi_abs("Shukla", 3) })
    IN  IF pick.ok THEN <<AllDay("Akshaya Tritiya", pick.d, "Vaishakha Shukla Tritiya")>>
        ELSE <<>>

rule_guru_nanak_jayanti(y, tz) ==
    LET pick == Earliest({ d \in DayOf(y, 10, 1) .. (DayOf(y, 12, 1) - 1) :
                             tithi_at_sunrise(d, tz) = tithi_abs("Shukla", 15) })
    IN  IF pick.ok THEN <<AllDay("Guru Nanak Jayanti", pick.d, "Kartika Purnima at sunrise")>>
        ELSE <<>>

rule_holi(y, tz) ==
    LET target == tithi_abs("Shukla", 15)
        \* for hh in range(ss.hour, 24)
        Evening(d) == HourWith(d, tz, TimeIn(local_sunset(d, tz), tz), 24, target).ok
        pick == Earliest({ d \in DayOf(y, 2, 20) .. DayOf(y, 4, 10) :
                             Evening(d) \/ tithi_at_sunrise(d, tz) = target })
    IN  IF ~pick.ok THEN <<>>
        ELSE << AllDay("Holika Dahan", pick.d,
                       IF Evening(pick.d) THEN "Phalguna Purnima evening"
                                          ELSE "Phalguna Purnima"),
                AllDay("Holi / Dhulandi", pick.d + 1, "Day after Phalguna Purnima.") >>

rule_janmashtami(y, tz) ==
    LET target == tithi_abs("Krishna", 8)
        Night(d) == HourWith(d, tz, 20, 24, target).ok
        Day(d)   == HourWith(d, tz, 0, 20, target)
        pick == Earliest({ d \in DayOf(y, 8, 10) .. DayOf(y, 9, 30) :
                             \/ Night(d)
                             \/ tithi_at_sunrise(d, tz) = target
                             \/ Day(d).ok })
    IN  IF ~pick.ok THEN <<>>
        ELSE <<AllDay("Janmashtami", pick.d,
                      IF Night(pick.d) THEN "Krishna Ashtami (night)"
                      ELSE IF tithi_at_sunrise(pick.d, tz) = target
                           THEN "Krishna Ashtami (sunrise)"
                           ELSE "Krishna Ashtami (hour " \o Pad2(Day(pick.d).d) \o ")")>>

\* FESTIVALS: the keys of the registry, in its order
FESTIVALS ==
    << "makara_sankranti", "hariyali_teej", "hartalika_teej", "nag_panchami",
       "ganesh_chaturthi", "navaratri_set", "pitru_paksha", "karwa_chauth",
       "diwali_bundle", "ram_navami", "akshaya_tritiya", "guru_nanak",
       "maha_shivratri", "holi", "raksha_bandhan", "janmashtami",
       "hanuman_jayanti", "gudi_padwa" >>

\* f["rule"](lat, lon, year, tz, intervals) of the registry entry with this
\* key; l is what lunations_covering_year(year) returns to the rules that
\* ask for the month map
RuleOf(key, y, tz, l, ivs) ==
    CASE key = "makara_sankranti" -> rule_makara_sankranti(y, tz)
      [] key = "hariyali_teej"    -> rule_hariyali_teej(tz, ivs)
      [] key = "hartalika_teej"   -> rule_hartalika_teej(y, tz)
      [] key = "nag_panchami"     -> rule_nag_panchami(y, tz)
      [] key = "ganesh_chaturthi" -> rule_ganesh_chaturthi(y, tz)
      [] key = "navaratri_set"    -> rule_navaratri_set(y, tz)
      [] key = "pitru_paksha"     -> rule_pitru_paksha(y, tz)
      [] key = "karwa_chauth"     -> rule_karwa_chauth(y, tz)
      [] key = "diwali_bundle"    -> rule_diwali_bundle(y, tz)
      [] key = "ram_navami"       -> rule_ram_navami(y, tz)
      [] key = "akshaya_tritiya"  -> rule_akshaya_tritiya(y, tz)
      [] key = "guru_nanak"       -> rule_guru_nanak_jayanti(y, tz)
      [] key = "maha_shivratri"   -> rule_mahashivratri(y, tz, l)
      [] key = "holi"             -> rule_holi(y, tz)
      [] key = "raksha_bandhan"   -> rule_raksha_bandhan(y, tz)
      [] key = "janmashtami"      -> rule_janmashtami(y, tz)
      [] key = "hanuman_jayanti"  -> rule_hanuman_jayanti(y, tz)
      [] key = "gudi_padwa"       -> rule_gudi_padwa(y, tz)

\* the festival keys that the help of --festivals (cli.py) and the usage
\* of the index route (server/app.py) list
UsageKeys ==
    << "diwali", "karwa_chauth", "mahashivratri", "gudi_padwa",
       "ganesh_chaturthi", "navaratri_start", "guru_nanak" >>

\* which is the list which.split(",") gives; "all" splits to <<"all">>
IsAll(which) == which = <<"all">>

\* chosen = FESTIVALS if which in (None, "all")
\*          else [f for f in FESTIVALS if f["key"] in which.split(",")]
ChosenFestivals(which) ==
    IF IsAll(which) THEN FESTIVALS
    ELSE SelectSeq(FESTIVALS, LAMBDA k : \E i \in 1 .. Len(which) : which[i] = k)

festivals_for_year(y, tz, l, ivs, which) ==
    LET chosen == ChosenFestivals(which)
        per    == [i \in 1 .. Len(chosen) |-> RuleOf(chosen[i], y, tz, l, ivs)]
    IN  Concat(per, 1, Len(chosen))

(***************************************************************************)
(* events_for_year with every category, for one year.                      *)
(***************************************************************************)
\* the list ev of events_for_year before the sort
collect_events(y, trad, tz, l, ivs, sank, ap, fest, which, rahu) ==
    ekadashi_events_for_year(y, trad, tz)
    \o (IF sank THEN sankashti_events_for_year(ivs, tz) ELSE <<>>)
    \o (IF ap   THEN amavasya_purnima_events_for_year(y, tz) ELSE <<>>)
    \o (IF fest THEN festivals_for_year(y, tz, l, ivs, which) ELSE <<>>)
    \o (IF rahu THEN rahu_kaal_events_for_year(y, tz) ELSE <<>>)

MaxPhases == 2

\* the festival selections a request is drawn with
FestivalSelections ==
    { <<"all">>, <<"ganesh_chaturthi">>, <<"hariyali_teej", "hartalika_teej">>,
      <<"diwali_bundle", "karwa_chauth", "guru_nanak">>, <<"diwali">>,
      <<"mahashivratri", "gudi_padwa">>, <<"navaratri_start">> }

InitYear ==
    /\ pc = "lun_start"
    /\ syn \in SynodicLengths
    /\ phase \in { (k * syn) \div MaxPhases : k \in 0 .. (MaxPhases - 1) }
    /\ year = 0
    /\ src_tz \in SourceOffsets
    /\ guesses = <<>> /\ gi = 0 /\ found = <<>> /\ answered = {}
    /\ lun = <<>> /\ intervals = <<>>
    /\ ev = <<>> /\ events = <<>> /\ viewer_tz = 0 /\ shown = <<>>
    /\ IdleT /\ IdleP /\ IdleX /\ IdleR

\* ev.sort(key=_key); return _dedup(ev), the list ev kept beside the result
SortedAndReturned(collected) ==
    /\ ev' = collected
    /\ events' = sort_and_dedup(collected)

\* events_for_year(lat, lon, year, tradition=..., include_...=..., festivals_which=...);
\* festivals_which is read only under include_festivals
EventsForYearAll ==
    /\ pc = "iv_done"
    /\ \E trad \in {"smartha", "vaishnava"}, sank \in BOOLEAN, ap \in BOOLEAN,
          fest \in BOOLEAN, rahu \in BOOLEAN :
       \E which \in (IF fest THEN FestivalSelections ELSE {<<"all">>}) :
           /\ tradition' = trad
           /\ include_sankashti' = sank
           /\ include_amavasya_purnima' = ap
           /\ include_festivals' = fest
           /\ include_rahukaal' = rahu
           /\ festivals_which' = which
           /\ SortedAndReturned(collect_events(year, trad, src_tz, lun, intervals,
                                               sank, ap, fest, which, rahu))
    /\ pc' = "year_done"
    /\ UNCHANGED <<varsL, src_tz, viewer_tz, shown, year_to, all_events, varsT, varsP, varsX>>

NextYear ==
    \/ MakeGuesses
    \/ SolveGuess
    \/ SortAndReturn
    \/ AmantaLunationIntervals
    \/ EventsForYearAll

SpecYear == InitYear /\ [][NextYear]_vars

\* the events of a list, as a set
ElementsOf(s) == { s[i] : i \in 1 .. Len(s) }

\* the standalone outputs of the category functions for the arguments of the
\* request, those of the categories the flags leave out being empty
StandaloneEkadashi == ekadashi_events_for_year(year, tradition, src_tz)
StandaloneSankashti ==
    IF include_sankashti THEN sankashti_events_for_year(intervals, src_tz) ELSE <<>>
StandaloneAmavasyaPurnima ==
    IF include_amavasya_purnima
    THEN amavasya_purnima_events_for_year(year, src_tz) ELSE <<>>
StandaloneFestivals ==
    IF include_festivals
    THEN festivals_for_year(year, src_tz, lun, intervals, festivals_which) ELSE <<>>
StandaloneRahuKaal ==
    IF include_rahukaal THEN rahu_kaal_events_for_year(year, src_tz) ELSE <<>>

\* C12: assembly neither invents nor loses events: for every combination of
\* the inclusion flags and every festival selection, each event of the
\* events_for_year output is an event of the standalone output of an
\* included category function for the same arguments, and every event of
\* the standalone output of each included category is in the output.
C12_AssemblyNeitherInventsNorLoses ==
    pc = "year_done" =>
        ElementsOf(events) =
            ElementsOf(StandaloneEkadashi) \cup ElementsOf(StandaloneSankashti)
            \cup ElementsOf(StandaloneAmavasyaPurnima)
            \cup ElementsOf(StandaloneFestivals) \cup ElementsOf(StandaloneRahuKaal)

\* a request with every category and all the festivals, whose output holds
\* events of each category and is not the list as it was collected
C12_Witness ==
    /\ pc = "year_done"
    /\ include_sankashti /\ include_amavasya_purnima
    /\ include_festivals /\ include_rahukaal
    /\ festivals_which = <<"all">>
    /\ events # ev
    /\ \E i \in 1 .. Len(events) : IsRahuKaal(events[i])
    /\ \E i \in 1 .. Len(events) : events[i].summary = "Amavasya"
    /\ \E i \in 1 .. Len(events) : events[i].summary = "Sankashti Chaturthi (Krishna)"
    /\ \E i \in 1 .. Len(events) : events[i].summary = "Ganesh Chaturthi / Vinayaka Chaturthi"
    /\ \E i \in 1 .. Len(events) : events[i].desc = "Smarta"

(***************************************************************************)
(* rahu_kaal_for_day on the sunrise and sunset the rise-set provider may   *)
(* deliver: sunsets before, at and after the sunrise, less than a second   *)
(* after it, and spans of hours that are not a multiple of eight ticks.    *)
(***************************************************************************)
MaxExtraTicks == 8

SampleSunrises == {0, 6 * TicksPerHour + 1}

SampleSpans ==
    {-13 * TicksPerHour, -TicksPerHour, -1, 0}
    \cup (1 .. (TicksPerSecond + MaxExtraTicks))
    \cup { h * TicksPerHour + x : h \in {8, 12, 16}, x \in 0 .. MaxExtraTicks }

InitRahu ==
    /\ pc = "rk_start"
    /\ sunrise \in SampleSunrises
    /\ \E x \in SampleSpans : sunset = sunrise + x
    /\ weekday \in 0 .. 6
    /\ rahu_start = 0 /\ rahu_end = 0
    /\ month_map = <<>> /\ IdleU /\ IdleF /\ IdleS /\ IdleB /\ IdleD
    /\ IdleT /\ IdleP /\ IdleL /\ IdleE /\ IdleR

RahuKaalForDay ==
    /\ pc = "rk_start"
    /\ LET w == rahu_kaal_for_day(sunrise, sunset, weekday)
       IN  rahu_start' = w.start /\ rahu_end' = w.end
    /\ pc' = "rk_done"
    /\ UNCHANGED <<sunrise, sunset, weekday, month_map, varsU, varsF, varsS, varsB, varsD,
                   varsT, varsP, varsL, varsE, varsR>>

NextRahu == RahuKaalForDay

SpecRahu == InitRahu /\ [][NextRahu]_vars

\* C13: the window rahu_kaal_for_day returns ends strictly later than it
\* starts, for every sunrise and sunset, those with sunset <= sunrise
\* included.
C13_WindowHasPositiveDuration ==
    pc = "rk_done" => rahu_start < rahu_end

\* a day whose sunset precedes its sunrise, with its window
C13_Witness ==
    /\ pc = "rk_done"
    /\ sunset < sunrise
    /\ rahu_start < rahu_end

\* the segment the weekday table of the data model gives: Mon 2, Tue 7,
\* Wed 5, Thu 6, Fri 4, Sat 3, Sun 8
SegmentOfWeekday == <<2, 7, 5, 6, 4, 3, 8>>[weekday + 1]

\* the daylight span: sunrise to sunset, or 12 hours from sunrise when the
\* sunset is not after the sunrise
DaylightSpan ==
    IF sunset > sunrise THEN sunset - sunrise ELSE 12 * TicksPerHour

\* the span with the floor of one second the code puts under it
FlooredSpan ==
    IF DaylightSpan < TicksPerSecond THEN TicksPerSecond ELSE DaylightSpan

\* x is num / den to within one tick, the resolution of an instant
WithinOneTick(x, num, den) == Abs(den * x - num) <= den

\* the returned window is segment k of the eight equal segments of a span
\* that starts at the sunrise, and lies inside that span
IsSegmentOf(span) ==
    /\ WithinOneTick(rahu_start - sunrise, (SegmentOfWeekday - 1) * span, 8)
    /\ WithinOneTick(rahu_end - sunrise, SegmentOfWeekday * span, 8)
    /\ WithinOneTick(rahu_end - rahu_start, span, 8)
    /\ sunrise <= rahu_start
    /\ rahu_end <= sunrise + span + 1

\* C14 as stated: the window is segment k of the eight equal segments of
\* the daylight span [sunrise, sunset), or of [sunrise, sunrise + 12 hours)
\* when sunset <= sunrise, k from the weekday table; it lies inside that
\* span (instants compared to within one tick).
C14_SegmentOfDaylight ==
    pc = "rk_done" => IsSegmentOf(DaylightSpan)

\* C14 as amended: the same, the span being taken as one second whenever
\* the sunset follows the sunrise by less than a second.
C14_SegmentOfFlooredDaylight ==
    pc = "rk_done" => IsSegmentOf(FlooredSpan)

\* a Sunday whose sunset is less than a second after its sunrise: the
\* window is the last eighth of the second that starts at the sunrise
C14_Witness ==
    /\ pc = "rk_done"
    /\ weekday = 6
    /\ sunrise < sunset /\ sunset - sunrise < TicksPerSecond
    /\ IsSegmentOf(TicksPerSecond)
    /\ sunset < rahu_start

\* the dates of the year's Ekadashi events in the output of a smartha request
SmarthaEkadashiDates ==
    { events[i].date : i \in { k \in 1 .. Len(events) : events[k].desc = "Smarta" } }

\* the dates of the year at whose local sunrise the tithi is the 11th of a
\* paksha: absolute tithi 11 (Shukla) or 26 (Krishna)
EleventhAtSunriseDates ==
    { d \in FirstDay(year) .. LastDay(year) :
        tithi_at(local_sunrise(d, src_tz)) \in {11, 26} }

\* C15: under the smartha tradition there is an Ekadashi event dated d
\* exactly for the dates d of the year at whose local sunrise the tithi is
\* the 11th of the Shukla paksha (11) or of the Krishna paksha (26).
C15_EkadashiOfEachPaksha ==
    (pc = "year_done" /\ tradition = "smartha") =>
        SmarthaEkadashiDates = EleventhAtSunriseDates

\* date d lies in the local date range of the lunation interval iv
InLocalRange(d, iv) ==
    /\ local_range_from_interval(src_tz, iv)[1] <= d
    /\ d <= local_range_from_interval(src_tz, iv)[2]

\* Shukla Tritiya occurs in iv at a sunrise or at an hourly sample
TritiyaOccursIn(iv) ==
    \/ first_sunrise_tithi_date_in_interval(src_tz, iv, tithi_abs("Shukla", 3)).ok
    \/ first_anytime_tithi_date_in_interval(src_tz, iv, tithi_abs("Shukla", 3)).ok

\* the places of the output that hold an event of the given summary
PlacesOf(summary) == { k \in 1 .. Len(events) : events[k].summary = summary }

\* C16: Hariyali Teej is anchored in the lunation before that of Ganesh
\* Chaturthi: whenever rule_ganesh_chaturthi finds a date g that lies in
\* lunation interval i with i > 0 and Shukla Tritiya occurs in interval
\* i-1, rule_hariyali_teej returns exactly one event, dated within the
\* local date range of interval i-1.  (The intervals count from 1 here.)
C16_HariyaliTeejBeforeGanesh ==
    (pc = "year_done" /\ include_festivals /\ festivals_which = <<"all">>) =>
        \A g \in PlacesOf("Ganesh Chaturthi / Vinayaka Chaturthi") :
            \A i \in 2 .. Len(intervals) :
                ( /\ InLocalRange(events[g].date, intervals[i])
                  /\ TritiyaOccursIn(intervals[i - 1]) )
                =>  /\ Cardinality(PlacesOf("Hariyali Teej")) = 1
                    /\ \A k \in PlacesOf("Hariyali Teej") :
                           InLocalRange(events[k].date, intervals[i - 1])

(***************************************************************************)
(* amanta_month_map_for_year on the list lunations_covering_year returns   *)
(* for a finder that may return anything, no root for every guess          *)
(* included.                                                               *)
(***************************************************************************)
InitMonthMap ==
    /\ pc = "lun_start"
    /\ syn = 0 /\ phase = 0 /\ year = 0
    /\ guesses = <<>> /\ gi = 0 /\ found = <<>> /\ answered = {}
    /\ lun = <<>> /\ intervals = <<>>
    /\ IdleT /\ IdleP /\ IdleX /\ IdleE /\ IdleR

\* amanta_month_map_for_year from `if not lun:` on
AmantaMonthMapForYear ==
    /\ pc = "lun_done"
    /\ month_map' = amanta_month_map_for_year(lun, year)
    /\ pc' = "map_done"
    /\ UNCHANGED <<varsK, varsU, varsF, varsS, varsB, varsD, varsT, varsP, varsL, varsE, varsR>>

NextMonthMap == MakeGuesses \/ SolveGuessAny \/ SortAndReturn \/ AmantaMonthMapForYear

SpecMonthMap == InitMonthMap /\ [][NextMonthMap]_vars

\* C17: when there is no lunation data for the year, the map
\* amanta_month_map_for_year returns assigns a month name to no date of the
\* year (the condition is reported instead).
C17_NoDataGivesNoMonthName ==
    (pc = "map_done" /\ lun = <<>>) =>
        \A d \in DOMAIN month_map :
            \A n \in 1 .. Len(AMANTA_MONTHS) : month_map[d] # AMANTA_MONTHS[n]

(***************************************************************************)
(* The functions of the engine called with the position provider           *)
(* available or not.  Without the ephemeris, load("de421.bsp") raises in   *)
(* _load_ephem, and so does every call of _ecliptic_longitudes,            *)
(* tithi_number_at and sun_sidereal_longitude; a call ends by returning a  *)
(* list or by raising, according to the try statements around these calls. *)
(***************************************************************************)
Raises     == [raised |-> TRUE,  out |-> <<>>]
Returns(s) == [raised |-> FALSE, out |-> s]

\* Below, l and ivs are the lists lunations_covering_year(y) and
\* amanta_lunation_intervals(y) give when the provider is available.

\* t = tithi_number_at(sr) stands outside the try of the day loop
call_ekadashi(ok, y, trad, tz) ==
    IF ok THEN Returns(ekadashi_events_for_year(y, trad, tz)) ELSE Raises

\* intervals = amanta_lunation_intervals(year): _find_amavasya_utc calls
\* f(left) under no try
call_sankashti(ok, ivs, tz) ==
    IF ok THEN Returns(sankashti_events_for_year(ivs, tz)) ELSE Raises

\* the day loop holds tithi_number_at(sr) in `try: ... except Exception:
\* pass`: every day is passed over and the empty list is returned
call_amavasya_purnima(ok, y, tz) ==
    IF ok THEN Returns(amavasya_purnima_events_for_year(y, tz)) ELSE Returns(<<>>)

\* intervals = amanta_lunation_intervals(year) comes before any rule
call_festivals(ok, y, tz, l, ivs, which) ==
    IF ok THEN Returns(festivals_for_year(y, tz, l, ivs, which)) ELSE Raises

\* rahu_kaal_events_for_year asks the rise-set provider only
call_rahu_kaal(ok, y, tz) == Returns(rahu_kaal_events_for_year(y, tz))

NotCalled == Returns(<<>>)

\* events_for_year: an exception of a category function is not caught
AssembledFrom(ek, sk, ap, fs, rk) ==
    IF ek.raised \/ sk.raised \/ ap.raised \/ fs.raised \/ rk.raised THEN Raises
    ELSE Returns(sort_and_dedup(ek.out \o sk.out \o ap.out \o fs.out \o rk.out))

call_events_for_year(ok, y, trad, tz, l, ivs, sank, ap, fest, which, rahu) ==
    AssembledFrom(call_ekadashi(ok, y, trad, tz),
                  IF sank THEN call_sankashti(ok, ivs, tz) ELSE NotCalled,
                  IF ap   THEN call_amavasya_purnima(ok, y, tz) ELSE NotCalled,
                  IF fest THEN call_festivals(ok, y, tz, l, ivs, which) ELSE NotCalled,
                  IF rahu THEN call_rahu_kaal(ok, y, tz) ELSE NotCalled)

\* With the provider available the lists of the year are worked out first,
\* by the steps of lunations_covering_year; without it there is none.
InitProvider ==
    /\ ephem_ok \in BOOLEAN
    /\ pc = IF ephem_ok THEN "lun_start" ELSE "iv_done"
    /\ syn \in SynodicLengths
    /\ phase \in { (k * syn) \div MaxPhases : k \in 0 .. (MaxPhases - 1) }
    /\ year = 0
    /\ src_tz \in SourceOffsets
    /\ called = "" /\ outcome = ""
    /\ guesses = <<>> /\ gi = 0 /\ found = <<>> /\ answered = {}
    /\ lun = <<>> /\ intervals = <<>>
    /\ ev = <<>> /\ events = <<>> /\ viewer_tz = 0 /\ shown = <<>>
    /\ IdleK /\ month_map = <<>> /\ IdleF /\ IdleS /\ IdleB /\ IdleD
    /\ IdleT /\ IdleP /\ IdleR

\* the call of function fn ends as res tells
Ends(fn, res) ==
    /\ pc = "iv_done"
    /\ called' = fn
    /\ outcome' = IF res.raised THEN "raised" ELSE "returned"
    /\ events' = res.out
    /\ pc' = "call_done"
    /\ UNCHANGED <<ephem_ok, varsL, src_tz, ev, viewer_tz, shown, year_to, all_events,
                   varsK, month_map, varsF, varsS, varsB, varsD, varsT, varsP>>

NoFlags ==
    /\ include_sankashti' = FALSE /\ include_amavasya_purnima' = FALSE
    /\ include_festivals' = FALSE /\ include_rahukaal' = FALSE

CallEkadashi ==
    \E trad \in {"smartha", "vaishnava"} :
        /\ Ends("ekadashi_events_for_year", call_ekadashi(ephem_ok, year, trad, src_tz))
        /\ tradition' = trad /\ festivals_which' = <<"all">> /\ NoFlags

CallSankashti ==
    /\ Ends("sankashti_events_for_year", call_sankashti(ephem_ok, intervals, src_tz))
    /\ tradition' = "" /\ festivals_which' = <<"all">> /\ NoFlags

CallAmavasyaPurnima ==
    /\ Ends("amavasya_purnima_events_for_year",
            call_amavasya_purnima(ephem_ok, year, src_tz))
    /\ tradition' = "" /\ festivals_which' = <<"all">> /\ NoFlags

CallFestivals ==
    \E which \in FestivalSelections :
        /\ Ends("festivals_for_year", call_festivals(ephem_ok, year, src_tz, lun, intervals, which))
        /\ tradition' = "" /\ festivals_which' = which /\ NoFlags

CallRahuKaal ==
    /\ Ends("rahu_kaal_events_for_year", call_rahu_kaal(ephem_ok, year, src_tz))
    /\ tradition' = "" /\ festivals_which' = <<"all">> /\ NoFlags

CallEventsForYear ==
    \E trad \in {"smartha", "vaishnava"}, sank \in BOOLEAN, ap \in BOOLEAN,
       fest \in BOOLEAN, rahu \in BOOLEAN :
        /\ Ends("events_for_year",
                call_events_for_year(ephem_ok, year, trad, src_tz, lun, intervals,
                                     sank, ap, fest, <<"all">>, rahu))
        /\ tradition' = trad /\ festivals_which' = <<"all">>
        /\ include_sankashti' = sank /\ include_amavasya_purnima' = ap
        /\ include_festivals' = fest /\ include_rahukaal' = rahu

NextProvider ==
    \/ MakeGuesses
    \/ SolveGuess
    \/ SortAndReturn
    \/ AmantaLunationIntervals
    \/ CallEkadashi
    \/ CallSankashti
    \/ CallAmavasyaPurnima
    \/ CallFestivals
    \/ CallRahuKaal
    \/ CallEventsForYear

SpecProvider == InitProvider /\ [][NextProvider]_vars

\* the functions that need a tithi or a longitude
NeedPositions ==
    { "ekadashi_events_for_year", "sankashti_events_for_year",
      "amavasya_purnima_events_for_year", "festivals_for_year", "events_for_year" }

\* C18: when the position provider is unavailable the request fails to the
\* caller: no call of a category function that needs a tithi or a
\* longitude, and no call of events_for_year, returns normally.
C18_UnavailableProviderFailsTheCall ==
    (pc = "call_done" /\ ~ephem_ok /\ called \in NeedPositions) =>
        outcome = "raised"

(***************************************************************************)
(* The viewer-timezone pass of the two front ends, main (cli.py) and       *)
(* calendar (server/app.py), on the events of the year range and a viewer  *)
(* zone label that is absent, known to pytz, or unknown to it.             *)
(***************************************************************************)
InitFrontEnd ==
    /\ pc = "fe_start"
    /\ front_end \in {"cli", "http"}
    /\ src_tz \in SourceOffsets
    /\ \E n \in 0 .. MaxEvents : events \in [1 .. n -> SampleEvents(src_tz)]
    /\ viewer_given \in BOOLEAN
    /\ viewer_valid \in (IF viewer_given THEN BOOLEAN ELSE {FALSE})
    /\ viewer_tz \in (IF viewer_valid THEN ViewerOffsets ELSE {0})
    /\ ev = <<>> /\ shown = <<>>
    /\ IdleK /\ month_map = <<>> /\ IdleU /\ IdleS /\ IdleB /\ IdleD
    /\ IdleT /\ IdleP /\ IdleL /\ IdleR

\* main: if args.viewer_tz: events = coalesce_rahukaal_for_viewer(events,
\* args.viewer_tz); pytz.timezone raises on an unknown label, under no try
ViewerPassCli ==
    /\ pc = "fe_start"
    /\ front_end = "cli"
    /\ IF ~viewer_given
       THEN shown' = events /\ outcome' = "returned"
       ELSE IF viewer_valid
            THEN /\ shown' = coalesce_rahukaal_for_viewer(events, viewer_tz)
                 /\ outcome' = "returned"
            ELSE shown' = <<>> /\ outcome' = "raised"
    /\ pc' = "fe_done"
    /\ UNCHANGED <<ephem_ok, called, varsF, varsK, varsS, varsB, varsD, month_map, ev, events, src_tz,
                   viewer_tz, varsT, varsP, varsL, varsR>>

\* calendar: if viewer_tz: try: pytz.timezone(viewer_tz); events =
\* coalesce_rahukaal_for_viewer(...) except Exception: pass
ViewerPassHttp ==
    /\ pc = "fe_start"
    /\ front_end = "http"
    /\ shown' = IF viewer_given /\ viewer_valid
                THEN coalesce_rahukaal_for_viewer(events, viewer_tz)
                ELSE events
    /\ outcome' = "returned"
    /\ pc' = "fe_done"
    /\ UNCHANGED <<ephem_ok, called, varsF, varsK, varsS, varsB, varsD, month_map, ev, events, src_tz,
                   viewer_tz, varsT, varsP, varsL, varsR>>

NextFrontEnd == ViewerPassCli \/ ViewerPassHttp

SpecFrontEnd == InitFrontEnd /\ [][NextFrontEnd]_vars

\* C19: when the viewer zone label is not a valid zone, coalescing is
\* skipped and the event sequence goes on unchanged to serialization, in
\* both front ends; the request does not fail.
C19_InvalidViewerZoneIsSkipped ==
    (pc = "fe_done" /\ viewer_given /\ ~viewer_valid) =>
        /\ outcome = "returned"
        /\ shown = events

\* the keys of the festival selection of the request, as a set
SelectedKeys == ElementsOf(festivals_which)

\* the events of the rules of the registry whose key is selected
EventsOfSelectedRules ==
    UNION { ElementsOf(RuleOf(FESTIVALS[j], year, src_tz, lun, intervals)) :
              j \in { n \in 1 .. Len(FESTIVALS) : FESTIVALS[n] \in SelectedKeys } }

\* the events of the output that no other category delivers
FestivalEventsOfOutput ==
    ElementsOf(events) \ ( ElementsOf(StandaloneEkadashi)
                           \cup ElementsOf(StandaloneSankashti)
                           \cup ElementsOf(StandaloneAmavasyaPurnima)
                           \cup ElementsOf(StandaloneRahuKaal) )

\* C20: every festival key of the usage text is a key of the festival
\* registry, so that a request that selects it has the rule it names
\* evaluated; and a comma-separated selection has exactly the rules of the
\* registry evaluated whose key is in the set.
C20_UsageKeysAreRegistryKeys ==
    (pc = "year_done" /\ include_festivals /\ ~IsAll(festivals_which)) =>
        /\ \A k \in SelectedKeys \cap ElementsOf(UsageKeys) : k \in ElementsOf(FESTIVALS)
        /\ FestivalEventsOfOutput = EventsOfSelectedRules

(***************************************************************************)
(* The festival rules run by themselves, the day-by-day scans of the       *)
(* single-date window rules one pass of `while d <= end` at a time.        *)
(***************************************************************************)
RulePhaseStepHours == 7
MaxRuleYear        == 1

\* the rules whose scan tests the sunrise first and then the 24 hours
SunriseFirstRules ==
    { "gudi_padwa", "ganesh_chaturthi", "nag_panchami", "raksha_bandhan",
      "hanuman_jayanti" }

\* the single-date window rules
WindowRules == SunriseFirstRules \cup { "janmashtami" }

\* start, end, the target tithi and the texts of a window rule
scan_window(key, y) ==
    CASE key = "gudi_padwa" ->
           [first |-> DayOf(y, 3, 15), last |-> DayOf(y, 4, 20),
            target |-> tithi_abs("Shukla", 1),
            summary |-> "Gudi Padwa (Maharashtra New Year)",
            at_sunrise |-> "Chaitra Shukla Pratipada at sunrise",
            at_hour |-> "Chaitra Shukla Pratipada (hour "]
      [] key = "ganesh_chaturthi" ->
           [first |-> DayOf(y, 8, 20), last |-> DayOf(y, 9, 25),
            target |-> tithi_abs("Shukla", 4),
            summary |-> "Ganesh Chaturthi / Vinayaka Chaturthi",
            at_sunrise |-> "Shukla Chaturthi at sunrise",
            at_hour |-> "Shukla Chaturthi present (hour "]
      [] key = "nag_panchami" ->
           [first |-> DayOf(y, 7, 1), last |-> DayOf(y, 8, 31),
            target |-> tithi_abs("Shukla", 5),
            summary |-> "Nag Panchami",
            at_sunrise |-> "Shravana Shukla Panchami (sunrise)",
            at_hour |-> "Shravana Shukla Panchami (hour "]
      [] key = "raksha_bandhan" ->
           [first |-> DayOf(y, 7, 20), last |-> DayOf(y, 9, 10),
            target |-> tithi_abs("Shukla", 15),
            summary |-> "Raksha Bandhan",
            at_sunrise |-> "Shravana Purnima",
            at_hour |-> "Shravana Purnima (hour "]
      [] key = "hanuman_jayanti" ->
           [first |-> DayOf(y, 3, 20), last |-> DayOf(y, 5, 10),
            target |-> tithi_abs("Shukla", 15),
            summary |-> "Hanuman Jayanti",
            at_sunrise |-> "Chaitra Purnima",
            at_hour |-> "Chaitra Purnima (hour "]
      [] key = "janmashtami" ->
           [first |-> DayOf(y, 8, 10), last |-> DayOf(y, 9, 30),
            target |-> tithi_abs("Krishna", 8),
            summary |-> "Janmashtami",
            at_sunrise |-> "Krishna Ashtami (sunrise)",
            at_hour |-> "Krishna Ashtami (hour "]
      [] key = "ram_navami" ->
           [first |-> DayOf(y, 3, 15), last |-> DayOf(y, 4, 20),
            target |-> tithi_abs("Shukla", 9),
            summary |-> "Ram Navami",
            at_sunrise |-> "",
            at_hour |-> ""]
      [] key = "diwali_bundle" ->
           [first |-> DayOf(y, 9, 20), last |-> DayOf(y, 11, 20),
            target |-> MaxTithi,
            summary |-> "Diwali / Deepavali",
            at_sunrise |-> "Amavasya in sidereal Libra",
            at_hour |-> ""]

\* the rules run one pass of their scan at a time
ScannedRules == WindowRules \cup { "diwali_bundle", "ram_navami" }

\* best = None
NoBest == [ok |-> FALSE, d |-> 0, hits |-> 0, samples |-> 0]

\* the test of the scan of rule_diwali_bundle without the solar month
diwali_gate_amavasya_only(d, tz) == tithi_at_sunrise(d, tz) = MaxTithi

\* t == 30 and sidereal_solar_month_index(noon) == 6
diwali_gate(d, tz) ==
    /\ tithi_at_sunrise(d, tz) = MaxTithi
    /\ sidereal_solar_month_index(LocalHour(d, 12, tz)) = 6

\* a scan that takes every other day
day_after_next(d) == d + 2

\* d += timedelta(days=1)
next_day(d) == d + 1

\* d after a hit of the hourly fallback, were the scan to go on to the next day
after_hourly_hit_unstopped(d, last) == d + 1

\* d after a hit of the hourly fallback: `d = end; break` leaves the for
\* loop only, and `d += timedelta(days=1)` follows it
after_hourly_hit(d, last) == last + 1

InitRule ==
    /\ pc = "rule_start"
    /\ syn \in SynodicLengths
    /\ phase \in { k * RulePhaseStepHours : k \in 0 .. ((syn - 1) \div RulePhaseStepHours) }
    /\ year \in 0 .. MaxRuleYear
    /\ src_tz \in SourceOffsets
    /\ guesses = <<>> /\ gi = 0 /\ found = <<>> /\ answered = {}
    /\ lun = <<>> /\ intervals = <<>>
    /\ ev = <<>> /\ events = <<>> /\ viewer_tz = 0 /\ shown = <<>>
    /\ IdleT /\ IdleP /\ IdleR
    /\ IdleK /\ month_map = <<>> /\ IdleU /\ IdleF /\ IdleS /\ IdleB /\ IdleD

\* what a step of a rule leaves alone
RuleFrame ==
    UNCHANGED <<varsT, varsP, varsL, varsE, varsR, varsK, month_map, varsU, varsF, varsB,
                varsD>>

\* out = []; start = ...; end = ...; d = start
StartScan ==
    /\ pc = "rule_start"
    /\ \E key \in ScannedRules :
          /\ rule' = key
          /\ scan_d' = scan_window(key, year).first
    /\ out' = <<>>
    /\ rn_best' = NoBest
    /\ pc' = "scan"
    /\ RuleFrame

\* one pass of `while d <= end` of a rule that tests the sunrise first:
\* rule_nag_panchami returns at a hit, the others break at a sunrise hit and
\* set d = end at an hourly hit
ScanDay ==
    /\ pc = "scan"
    /\ rule \in SunriseFirstRules
    /\ LET w  == scan_window(rule, year)
           hh == HourWith(scan_d, src_tz, 0, 24, w.target)
       IN  /\ scan_d <= w.last
           /\ IF tithi_at_sunrise(scan_d, src_tz) = w.target
              THEN /\ out' = Append(out, AllDay(w.summary, scan_d, w.at_sunrise))
                   /\ scan_d' = scan_d
                   /\ pc' = "rule_done"
              ELSE IF hh.ok
                   THEN /\ out' = Append(out, AllDay(w.summary, scan_d,
                                                     w.at_hour \o Pad2(hh.d) \o ")"))
                        /\ IF rule = "nag_panchami"
                           THEN scan_d' = scan_d /\ pc' = "rule_done"
                           ELSE /\ scan_d' = after_hourly_hit(scan_d, w.last)
                                /\ pc' = "scan"
                   ELSE /\ out' = out
                        /\ scan_d' = next_day(scan_d)
                        /\ pc' = "scan"
    /\ UNCHANGED <<rule, rn_best>>
    /\ RuleFrame

\* one pass of `while d <= end` of rule_janmashtami: the hours 20..23, then
\* the sunrise, then the hours 0..19, a hit returning at once
ScanDayJanmashtami ==
    /\ pc = "scan"
    /\ rule = "janmashtami"
    /\ LET w     == scan_window(rule, year)
           night == HourWith(scan_d, src_tz, 20, 24, w.target)
           day   == HourWith(scan_d, src_tz, 0, 20, w.target)
       IN  /\ scan_d <= w.last
           /\ IF night.ok
              THEN /\ out' = Append(out, AllDay(w.summary, scan_d, "Krishna Ashtami (night)"))
                   /\ scan_d' = scan_d
                   /\ pc' = "rule_done"
              ELSE IF tithi_at_sunrise(scan_d, src_tz) = w.target
                   THEN /\ out' = Append(out, AllDay(w.summary, scan_d, w.at_sunrise))
                        /\ scan_d' = scan_d
                        /\ pc' = "rule_done"
                   ELSE IF day.ok
                        THEN /\ out' = Append(out, AllDay(w.summary, scan_d,
                                                  w.at_hour \o Pad2(day.d) \o ")"))
                             /\ scan_d' = scan_d
                             /\ pc' = "rule_done"
                        ELSE /\ out' = out
                             /\ scan_d' = next_day(scan_d)
                             /\ pc' = "scan"
    /\ UNCHANGED <<rule, rn_best>>
    /\ RuleFrame

\* one pass of `while d <= end` of rule_diwali_bundle; at a hit
\* `diwali = d; break`, and the three events are appended after the loop
ScanDayDiwali ==
    /\ pc = "scan"
    /\ rule = "diwali_bundle"
    /\ scan_d <= scan_window(rule, year).last
    /\ IF diwali_gate(scan_d, src_tz)
       THEN /\ out' = out \o
                   << AllDay("Diwali / Deepavali", scan_d, "Amavasya in sidereal Libra"),
                      AllDay("Govardhan Puja / Annakut", scan_d + 1,
                             "Shukla Pratipada (day after Diwali)."),
                      AllDay("Bhai Dooj", scan_d + 2,
                             "Shukla Dwitiya (two days after Diwali).") >>
            /\ scan_d' = scan_d
            /\ pc' = "rule_done"
       ELSE /\ out' = out
            /\ scan_d' = next_day(scan_d)
            /\ pc' = "scan"
    /\ UNCHANGED <<rule, rn_best>>
    /\ RuleFrame

\* one pass of `while d <= end` of rule_ram_navami: the score of the day
\* replaces best when it is positive and best is None, lower, or equal
ScanDayRamNavami ==
    /\ pc = "scan"
    /\ rule = "ram_navami"
    /\ scan_d <= scan_window(rule, year).last
    /\ LET r == RamNavamiDay(scan_d, src_tz)
       IN  rn_best' =
             IF r.hits > 0 /\ (~rn_best.ok \/ RamNavamiBetter(r, rn_best))
             THEN [ok |-> TRUE, d |-> r.d, hits |-> r.hits, samples |-> r.samples]
             ELSE rn_best
    /\ scan_d' = next_day(scan_d)
    /\ UNCHANGED <<pc, rule, out>>
    /\ RuleFrame

\* rule_ram_navami after its loop: `if best:` append the event; return out
ReturnRamNavami ==
    /\ pc = "scan"
    /\ rule = "ram_navami"
    /\ scan_d > scan_window(rule, year).last
    /\ out' = IF rn_best.ok
              THEN Append(out, AllDay("Ram Navami", rn_best.d,
                       "Chaitra Shukla Navami, Madhyahna-kala occupancy: "
                           \o ToString(rn_best.hits) \o "/" \o ToString(rn_best.samples)))
              ELSE out
    /\ pc' = "rule_done"
    /\ UNCHANGED <<rule, scan_d, rn_best>>
    /\ RuleFrame

\* `while d <= end` is false: return out
ScanEnd ==
    /\ pc = "scan"
    /\ rule # "ram_navami"
    /\ scan_d > scan_window(rule, year).last
    /\ pc' = "rule_done"
    /\ UNCHANGED varsS
    /\ RuleFrame

\* the rules run here in one step
WholeRules == { "navaratri_set", "pitru_paksha" }

\* f["rule"](lat, lon, year, tz, intervals) of a rule that reads no interval
RunRule ==
    /\ pc = "rule_start"
    /\ \E key \in WholeRules :
          /\ rule' = key
          /\ out' = RuleOf(key, year, src_tz, <<>>, <<>>)
    /\ UNCHANGED <<scan_d, rn_best>>
    /\ pc' = "rule_done"
    /\ RuleFrame

NextRule ==
    \/ StartScan
    \/ ScanDay
    \/ ScanDayJanmashtami
    \/ ScanDayDiwali
    \/ ScanDayRamNavami
    \/ ReturnRamNavami
    \/ ScanEnd
    \/ RunRule

SpecRule == InitRule /\ [][NextRule]_vars

\* C21: rule_gudi_padwa returns no event or one event, and the date of the
\* event lies within March 15 to April 20 of the year, both included; it
\* holds of the list out all along the scan
C21_GudiPadwaInWindow ==
    rule = "gudi_padwa" =>
        /\ Len(out) <= 1
        /\ \A i \in 1 .. Len(out) :
              /\ out[i].all_day
              /\ DayOf(year, 3, 15) <= out[i].date
              /\ out[i].date <= DayOf(year, 4, 20)

\* rule_gudi_padwa has returned one event that the hourly fallback found, on
\* a day before April 20
C21_Witness ==
    /\ pc = "rule_done"
    /\ rule = "gudi_padwa"
    /\ Len(out) = 1
    /\ tithi_at_sunrise(out[1].date, src_tz) # tithi_abs("Shukla", 1)
    /\ out[1].date < DayOf(year, 4, 20)
    /\ out = rule_gudi_padwa(year, src_tz)

\* the dates from September 20 to November 20 at whose sunrise the tithi is
\* 30 and at whose local noon the Sun is in sidereal Libra
DiwaliDates ==
    { d \in DayOf(year, 9, 20) .. DayOf(year, 11, 20) :
        /\ tithi_at(local_sunrise(d, src_tz)) = 30
        /\ sidereal_solar_month_index(LocalHour(d, 12, src_tz)) = 6 }

\* C22: rule_diwali_bundle returns no event, or the three events Diwali,
\* Govardhan Puja and Bhai Dooj in this order on the days d, d+1 and d+2, d
\* being the first date of September 20 .. November 20 with tithi 30 at
\* sunrise and the sidereal solar month 6 at noon
C22_DiwaliBundleOfThree ==
    (pc = "rule_done" /\ rule = "diwali_bundle") =>
        IF DiwaliDates = {} THEN out = <<>>
        ELSE LET first == CHOOSE x \in DiwaliDates : \A o \in DiwaliDates : x <= o
             IN  /\ Len(out) = 3
                 /\ \A i \in 1 .. 3 : out[i].all_day /\ out[i].date = first + i - 1
                 /\ out[1].summary = "Diwali / Deepavali"
                 /\ out[2].summary = "Govardhan Puja / Annakut"
                 /\ out[3].summary = "Bhai Dooj"

\* the bundle is returned for a date before which the window holds an
\* Amavasya sunrise outside Libra
C22_Witness ==
    /\ pc = "rule_done"
    /\ rule = "diwali_bundle"
    /\ Len(out) = 3
    /\ out = rule_diwali_bundle(year, src_tz)
    /\ \E x \in DayOf(year, 9, 20) .. (out[1].date - 1) :
          tithi_at_sunrise(x, src_tz) = 30

(***************************************************************************)
(* events_for_year called twice with the same arguments, the providers     *)
(* answering alike.  The engine keeps nothing from call to call but the    *)
(* ephemeris handle: ev, seen and out are made anew by each call.          *)
(***************************************************************************)
\* seen at the start of _dedup, were the set kept from the call before
seen_kept(before) == before

\* seen, out = set(), []: each call of _dedup starts from the empty set,
\* whatever the call before has seen
seen_at_call(before) == {}

\* the loop of _dedup with seen as it stands at the start
FirstOfKeyFrom(seen0, s, key) ==
    KeptOf(s, AsList([i \in 1 .. Len(s) |->
                        /\ key[i] \notin seen0
                        /\ \A j \in 1 .. (i - 1) : key[j] # key[i]]))

dedup_from(seen0, s) ==
    FirstOfKeyFrom(seen0, s, AsList([i \in 1 .. Len(s) |-> dedup_key(s[i])]))

\* the keys _dedup has seen when it returns s
KeysOf(s) == { dedup_key(s[i]) : i \in 1 .. Len(s) }

\* the second call of events_for_year, with the arguments of the first
EventsForYearAgain ==
    /\ pc = "year_done"
    /\ events_again' =
          dedup_from(seen_at_call(KeysOf(events)),
                     SortEvents(collect_events(year, tradition, src_tz, lun, intervals,
                                               include_sankashti, include_amavasya_purnima,
                                               include_festivals, festivals_which,
                                               include_rahukaal)))
    /\ pc' = "again_done"
    /\ UNCHANGED <<varsT, varsP, varsL, varsE, varsR, varsK, month_map, varsU, varsF,
                   varsS, varsB>>

NextTwice ==
    \/ MakeGuesses
    \/ SolveGuess
    \/ SortAndReturn
    \/ AmantaLunationIntervals
    \/ EventsForYearAll
    \/ EventsForYearAgain

SpecTwice == InitYear /\ [][NextTwice]_vars

FindGuessStepHours == 13
FindPhases         == {0, 100}

InitFind ==
    /\ pc = "find_start"
    /\ syn \in SynodicLengths
    /\ phase \in FindPhases
    /\ br_guess \in { k * FindGuessStepHours : k \in 0 .. ((syn - 1) \div FindGuessStepHours) }
    /\ br_left = 0 /\ br_right = 0 /\ br_tries = 0 /\ bis_n = 0 /\ root = NoRoot
    /\ year = 0 /\ guesses = <<>> /\ gi = 0 /\ found = <<>> /\ answered = {}
    /\ lun = <<>> /\ intervals = <<>>
    /\ IdleT /\ IdleP /\ IdleE /\ IdleR
    /\ IdleK /\ month_map = <<>> /\ IdleU /\ IdleF /\ IdleS /\ IdleD

\* what a step of the finder leaves alone
FindFrame ==
    UNCHANGED <<varsT, varsP, varsL, varsE, varsR, varsK, month_map, varsU, varsF, varsS,
                varsD, br_guess>>

\* left = dt_guess_utc - 36 h; right = dt_guess_utc + 36 h; tries = 0
StartFind ==
    /\ pc = "find_start"
    /\ br_left' = br_guess - Hours(BracketHours)
    /\ br_right' = br_guess + Hours(BracketHours)
    /\ br_tries' = 0
    /\ pc' = "expand"
    /\ UNCHANGED <<bis_n, root>>
    /\ FindFrame

\* one pass of `while fl * fr > 0 and tries < 6`
Expand ==
    /\ pc = "expand"
    /\ f(br_left) * f(br_right) > 0 /\ br_tries < MaxTries
    /\ br_left' = br_left - Hours(ExpandHours)
    /\ br_right' = br_right + Hours(ExpandHours)
    /\ br_tries' = br_tries + 1
    /\ UNCHANGED <<pc, bis_n, root>>
    /\ FindFrame

\* the while loop is left: `if fl * fr > 0: return None`, else on to the for loop
EndExpand ==
    /\ pc = "expand"
    /\ ~(f(br_left) * f(br_right) > 0 /\ br_tries < MaxTries)
    /\ IF f(br_left) * f(br_right) > 0
       THEN root' = NoRoot /\ pc' = "find_done"
       ELSE root' = root /\ pc' = "bisect"
    /\ UNCHANGED <<br_left, br_right, br_tries, bis_n>>
    /\ FindFrame

\* the halves of the bracket taken the other way round
root_in_left_half_flipped(fl, fm) == fl * fm > 0

\* `if fl * fm <= 0`: the sign changes between left and mid
root_in_left_half(fl, fm) == fl * fm <= 0

\* one pass of `for _ in range(50)`
BisectStep ==
    /\ pc = "bisect"
    /\ bis_n < MaxBisect
    /\ LET mid == br_left + (br_right - br_left) \div 2
           fm  == f(mid)
       IN  IF WithinTol(fm)
           THEN /\ root' = Root(mid)
                /\ pc' = "find_done"
                /\ UNCHANGED <<br_left, br_right>>
           ELSE /\ IF root_in_left_half(f(br_left), fm)
                   THEN br_right' = mid /\ br_left' = br_left
                   ELSE br_left' = mid /\ br_right' = br_right
                /\ UNCHANGED <<root, pc>>
    /\ bis_n' = bis_n + 1
    /\ UNCHANGED br_tries
    /\ FindFrame

\* the for loop is exhausted: return left + (right - left) / 2
BisectEnd ==
    /\ pc = "bisect"
    /\ bis_n = MaxBisect
    /\ root' = Root(br_left + (br_right - br_left) \div 2)
    /\ pc' = "find_done"
    /\ UNCHANGED <<br_left, br_right, br_tries, bis_n>>
    /\ FindFrame

NextFind ==
    \/ StartFind
    \/ Expand
    \/ EndExpand
    \/ BisectStep
    \/ BisectEnd

\* the call runs on until it returns
SpecFind == InitFind /\ [][NextFind]_vars /\ WF_vars(NextFind)

\* the widest window of the finder: guess +/- (36 + 6 * 24) hours
WidestHours == BracketHours + MaxTries * ExpandHours

\* the counters of the two loops stay within 6 and 50
FindBounded == br_tries <= MaxTries /\ bis_n <= MaxBisect

\* while widening, the window is guess +/- (36 + 24 * tries) hours, and it
\* has been widened only past windows whose ends agree in sign
WidenedBySteps ==
    pc = "expand" =>
        /\ br_left = br_guess - Hours(BracketHours + br_tries * ExpandHours)
        /\ br_right = br_guess + Hours(BracketHours + br_tries * ExpandHours)
        /\ \A k \in 0 .. (br_tries - 1) :
              f(br_guess - Hours(BracketHours + k * ExpandHours))
                * f(br_guess + Hours(BracketHours + k * ExpandHours)) > 0

\* no root is returned exactly when the ends of the widest window agree in
\* sign after the 6th widening
NoRootExactly ==
    pc = "find_done" =>
        (~root.ok <=>
            /\ br_tries = MaxTries
            /\ f(br_guess - Hours(WidestHours)) * f(br_guess + Hours(WidestHours)) > 0)

\* the bracket of the bisection holds a change of sign and lies in the
\* window the widening ended with
SignChangeKept ==
    pc = "bisect" =>
        /\ f(br_left) * f(br_right) <= 0
        /\ br_guess - Hours(BracketHours + br_tries * ExpandHours) <= br_left
        /\ br_left <= br_right
        /\ br_right <= br_guess + Hours(BracketHours + br_tries * ExpandHours)

\* a returned instant lies in the last bracket, which holds a change of sign
RootInside ==
    (pc = "find_done" /\ root.ok) =>
        /\ br_left <= root.t /\ root.t <= br_right
        /\ f(br_left) * f(br_right) <= 0

\* C24: _find_amavasya_utc returns for every guess, after at most 6
\* widenings of the window guess +/- 36 h by 24 h a side and at most 50
\* bisection steps; it returns no root exactly when the ends agree in sign
\* after the 6th widening, and otherwise an instant inside the last
\* bracket, which holds a change of sign of f at every bisection step
C24_FinderTerminatesInsideBracket ==
    /\ [](FindBounded /\ WidenedBySteps /\ NoRootExactly /\ SignChangeKept /\ RootInside)
    /\ <>(pc = "find_done")

\* a root is returned after the 6th widening and 50 bisection steps
C24_Witness ==
    /\ pc = "find_done"
    /\ root.ok
    /\ br_tries = MaxTries
    /\ bis_n = MaxBisect
    /\ br_left < br_right
    /\ root = find_amavasya_utc(br_guess)

\* the dates of the window of the rule being run on which the target tithi
\* holds at sunrise or at one of the 24 hours of the day
QualifyingDates ==
    LET w == scan_window(rule, year)
    IN  { x \in w.first .. w.last :
            \/ tithi_at(local_sunrise(x, src_tz)) = w.target
            \/ \E hh \in 0 .. 23 : tithi_at(LocalHour(x, hh, src_tz)) = w.target }

Occupancy(x) == RamNavamiDay(x, src_tz)

\* the dates of March 15 .. April 20 with a positive occupancy score
ScoredDates ==
    { x \in DayOf(year, 3, 15) .. DayOf(year, 4, 20) : Occupancy(x).hits > 0 }

\* C26: rule_ram_navami returns no event or one; when a date of March 15 ..
\* April 20 has a positive occupancy score, the returned date has the
\* highest score of the window and is the latest of the dates with that score
C26_RamNavamiHighestScoreLatestDate ==
    (pc = "rule_done" /\ rule = "ram_navami") =>
        /\ Len(out) <= 1
        /\ ScoredDates # {} =>
              /\ Len(out) = 1
              /\ out[1].date \in ScoredDates
              /\ \A x \in ScoredDates :
                    LET a == Occupancy(out[1].date)
                        b == Occupancy(x)
                    IN  /\ a.hits * b.samples >= b.hits * a.samples
                        /\ a.hits * b.samples = b.hits * a.samples => x <= out[1].date

\* rule_ram_navami has returned the later of two dates of equal score
C26_Witness ==
    /\ pc = "rule_done"
    /\ rule = "ram_navami"
    /\ Len(out) = 1
    /\ out = rule_ram_navami(year, src_tz)
    /\ \E x \in ScoredDates :
          /\ x < out[1].date
          /\ Occupancy(x).hits * Occupancy(out[1].date).samples
               = Occupancy(out[1].date).hits * Occupancy(x).samples

\* the end dates rule_pitru_paksha reports for the request at hand
PitruPakshaEnds ==
    LET pp == rule_pitru_paksha(year, src_tz)
    IN  { pp[i].date : i \in { n \in 1 .. Len(pp) :
                                 pp[n].summary = "Pitru Paksha ends (Mahalaya Amavasya)" } }

\* the Amavasya of the Navaratri rule is the reported end of Pitru Paksha
AnchoredOnPitruPakshaEnd ==
    \A e \in PitruPakshaEnds :
        /\ navaratri_amavasya(year, src_tz).ok
        /\ navaratri_amavasya(year, src_tz).d = e

\* every sub-event is dated after the reported end of Pitru Paksha
AfterPitruPakshaEnd ==
    \A e \in PitruPakshaEnds : \A i \in 1 .. Len(out) : out[i].date > e

\* at most one sub-event a date, at most four in all
OneSubEventADate ==
    /\ Len(out) <= 4
    /\ \A i, j \in 1 .. Len(out) : i # j => out[i].date # out[j].date

\* C27: whenever rule_pitru_paksha reports an end date, the Amavasya that
\* rule_navaratri_set detects is that date, so that every Navaratri
\* sub-event is dated after the end of Pitru Paksha; there is at most one
\* sub-event a date and at most four in all
C27_NavaratriAnchoredOnPitruPakshaEnd ==
    (pc = "rule_done" /\ rule = "navaratri_set") =>
        /\ AnchoredOnPitruPakshaEnd
        /\ AfterPitruPakshaEnd
        /\ OneSubEventADate

\* the events of the output whose intrinsic date lies outside the year asked for
OutsideYear ==
    { i \in 1 .. Len(events) :
        \/ PlacedDate(events[i]) < FirstDay(year)
        \/ PlacedDate(events[i]) > LastDay(year) }

\* C28: every event that events_for_year(lat, lon, year, ...) returns has
\* its intrinsic date (the date of an all-day event, the local start date of
\* a timed one) inside the year asked for, for every tradition and every
\* combination of the inclusion flags
C28_EveryEventInsideTheYear ==
    pc = "year_done" => OutsideYear = {}

(***************************************************************************)
(* ekadashi_events_for_year by itself, under either tradition.             *)
(***************************************************************************)
InitEkadashi ==
    /\ pc = "ek_start"
    /\ syn \in SynodicLengths
    /\ phase \in { k * RulePhaseStepHours : k \in 0 .. ((syn - 1) \div RulePhaseStepHours) }
    /\ year \in 0 .. MaxRuleYear
    /\ src_tz \in SourceOffsets
    /\ guesses = <<>> /\ gi = 0 /\ found = <<>> /\ answered = {}
    /\ lun = <<>> /\ intervals = <<>>
    /\ ev = <<>> /\ events = <<>> /\ viewer_tz = 0 /\ shown = <<>>
    /\ IdleT /\ IdleP /\ IdleR /\ IdleX

\* ekadashi_events_for_year(lat, lon, year, tradition=...)
EkadashiEventsForYear ==
    /\ pc = "ek_start"
    /\ \E trad \in {"smartha", "vaishnava"} :
          /\ tradition' = trad
          /\ events' = ekadashi_events_for_year(year, trad, src_tz)
    /\ pc' = "ek_done"
    /\ UNCHANGED <<varsT, varsP, varsL, varsX, src_tz, ev, viewer_tz, shown, year_to,
                   include_sankashti, include_amavasya_purnima, include_rahukaal,
                   include_festivals, festivals_which, all_events>>

NextEkadashi == EkadashiEventsForYear

SpecEkadashi == InitEkadashi /\ [][NextEkadashi]_vars

\* the dates inside the year asked for that carry an event of the list s
DatesInsideYear(s) ==
    { s[i].date : i \in { n \in 1 .. Len(s) :
                            FirstDay(year) <= s[n].date /\ s[n].date <= LastDay(year) } }

\* what the function returns for the same year and place under the other tradition
UnderOtherTradition ==
    ekadashi_events_for_year(year,
                             IF tradition = "vaishnava" THEN "smartha" ELSE "vaishnava",
                             src_tz)

\* C29: the Ekadashi dates inside the year under tradition vaishnava are
\* those under tradition smartha, and no date carries more than one Ekadashi
\* event: the event the shift from day d gives to d + 1 is the one the
\* sunrise test of day d + 1 gives, and _dedup merges the two
C29_VaishnavaDatesAreSmarthaDates ==
    pc = "ek_done" =>
        /\ DatesInsideYear(events) = DatesInsideYear(UnderOtherTradition)
        /\ \A i, j \in 1 .. Len(events) : i # j => events[i].date # events[j].date

\* the vaishnava call has returned, for a date with tithi 11 at sunrise, the
\* event appended by the shift of the day before
C29_Witness ==
    /\ pc = "ek_done"
    /\ tradition = "vaishnava"
    /\ \E i \in 1 .. Len(events) :
          /\ events[i].desc = "Vaishnava shift"
          /\ events[i].date <= LastDay(year)
          /\ tithi_at(local_sunrise(events[i].date, src_tz)) = EkadashiTithi
          /\ tithi_at(local_sunrise(events[i].date - 1, src_tz)) # EkadashiTithi
    /\ Len(events) >= 12

====
